---- MODULE Spec2Model ----
(***************************************************************************)
(* Upload pipeline of slack-to-drive: event intake (server.js), the upload *)
(* store (utils/database.js), the upload queue (services/queueService.js,  *)
(* an async.queue) and the retry controller (processUploadWithRetry).      *)
(*                                                                         *)
(* Node runs one callback at a time, so every action below is one          *)
(* run-to-completion segment of the code: from the resumption of an await  *)
(* (or the firing of a timer / setImmediate) up to the next await.         *)
(***************************************************************************)
EXTENDS Integers, Sequences, FiniteSets, TLC

(***************************************************************************)
(* Bounds of the model                                                     *)
(***************************************************************************)
MaxFiles == 2
MaxInvocations == 2
MaxConcurrency == 2
MaxEvents == 2
MaxDeliveries == 3
MaxClassifications == 2
MaxFaces == 2
MaxCallers == 2
StepsPerTTL == 2

(***************************************************************************)
(* Program constants                                                       *)
(***************************************************************************)
maxAttempts == 3
delayMs == 2000
EVENT_TTL == 60 * 60 * 1000

Files == 1..MaxFiles
Invocations == 1..MaxInvocations
Events == 1..MaxEvents

allowedImageTypes == {"image/jpeg", "image/png", "image/gif", "image/webp", "image/bmp"}

\* config.slack.targetUserId: the one user whose files are accepted
targetUserId == <<"U", "0", "1", "2", "3", "4", "5", "6", "7">>

\* config.upload.maxFileSizeBytes
maxFileSizeBytes == 50 * 1024 * 1024

\* a file that passes every check of validateFileUpload
ValidFile ==
  [id |-> <<"F", "0", "A", "B", "C", "1", "2", "3", "4">>,
   user |-> targetUserId,
   name |-> <<"a", ".", "p", "n", "g">>,
   mimetype |-> "image/png",
   size |-> 1024,
   channels |-> <<"C1">>]

\* channels in which chat.postMessage is answered with an error (archived,
\* bot not a member)
ClosedChannels == {"C9"}

\* a valid file shared in a channel the bot cannot post to
ClosedChannelFile == [ValidFile EXCEPT !.channels = <<"C9">>]

\* What files.info answers for a file: the attributes of the file that the
\* pipeline reads (id, user, name, mimetype and size for validation, channels
\* for notifications).
SlackFileKinds ==
  << ValidFile,
     [ValidFile EXCEPT !.channels = <<>>],
     [ValidFile EXCEPT !.mimetype = "application/pdf"] >>

\* Files.info answers that fail one or more checks of validateFileUpload,
\* next to answers that pass them all
IntakeFileKinds ==
  << ValidFile,
     [ValidFile EXCEPT !.id = <<"f", "i", "l", "e", "-", "1">>],
     [ValidFile EXCEPT !.id = <<>>],
     [ValidFile EXCEPT !.user = <<"U", "9", "9", "9", "9", "9", "9", "9", "9">>],
     [ValidFile EXCEPT !.user = <<"B", "0", "1">>],
     [ValidFile EXCEPT !.name = <<"a", "?", ".", "p", "n", "g">>],
     [ValidFile EXCEPT !.name = [k \in 1..256 |-> "a"]],
     [ValidFile EXCEPT !.name = <<>>],
     [ValidFile EXCEPT !.mimetype = "application/pdf"],
     [ValidFile EXCEPT !.mimetype = ""],
     [ValidFile EXCEPT !.size = maxFileSizeBytes + 1],
     [ValidFile EXCEPT !.size = maxFileSizeBytes],
     [ValidFile EXCEPT !.size = 0],
     [ValidFile EXCEPT !.id = <<"F", "1">>, !.size = 0, !.channels = <<>>] >>

NULL == ""
NoDriveFile == <<>>

VARIABLES
  concurrency,          \* config.queue.concurrency
  slackFiles,           \* Slack's metadata of each file (answer of files.info)
  uploads,              \* the uploads table, rows in rowid order
  pc,                   \* position of each handleFileSharedEvent invocation
  fileOf,               \* event.file_id of each invocation
  recordId,             \* result of the invocation's insertUpload call
  attempt,              \* attempt parameter of the invocation's processUploadWithRetry
  timer,                \* remaining ms of the invocation's back-off setTimeout
  requestedDelay,       \* delay passed to the last back-off setTimeout
  waited,               \* ms elapsed since the last back-off setTimeout was set
  tasks,                \* q._tasks: invocations whose task waits in the queue
  numRunning,           \* async.queue numRunning
  paused,               \* q.paused
  processingScheduled,  \* a setImmediate(q.process) is pending
  shutdown,             \* "none", "draining" (waitForDrain pending), "exited"
  drainHandler,         \* waitForDrain's drainHandler is the registered drain handler
  attemptsMade,         \* per file: number of processUploadWithRetry entries
  sentErrors,           \* per file: sendErrorMessage calls issued
  sentCompletions,      \* per file: sendCompletionMessage calls issued
  processedEvents,      \* server.js processedEvents set
  clearIn,              \* ms until the setInterval cleanup fires
  firstAge,             \* per event id: ms since its first delivery (-1: never)
  deliveries,           \* per event id: deliveries received
  handledInWindow,      \* per event id: deliveries processed within EVENT_TTL of the first
  learnedRules,         \* the content of data/learned-rules.json when the rules were loaded
  visionAnalysis,       \* what the Vision helper found in the image being classified
  slackContext,         \* the Slack messages collected for the image being classified
  classifications,      \* what each classifyImage call on that image ended with
  written,              \* per file: the update its last classification caller passed to updateUpload
  category_folders,     \* the category_folders table: category_name -> folder_id
  driveFolders,         \* the folders of the Drive, in the order of their creation
  folderCalls           \* per caller: position, category, root folder and result of its
                        \* getOrCreateCategoryFolder call

pipelineVars == <<concurrency, slackFiles, uploads, pc, fileOf, recordId, attempt,
                  timer, requestedDelay, waited, tasks, numRunning,
                  paused, processingScheduled, shutdown, drainHandler, attemptsMade, sentErrors, sentCompletions>>
eventVars == <<processedEvents, clearIn, firstAge, deliveries, handledInWindow>>
folderVars == <<category_folders, driveFolders, folderCalls>>
agentVars == <<written, folderVars>>
classifyVars == <<learnedRules, visionAnalysis, slackContext, classifications, agentVars>>
vars == <<pipelineVars, eventVars, classifyVars>>

(***************************************************************************)
(* utils/database.js                                                       *)
(***************************************************************************)
allowedFields ==
  {"status", "drive_file_id", "drive_file_name", "drive_file_url",
   "drive_folder_path", "error_message", "retry_count", "uploaded_at"}

\* CHECK(status IN (...))
Statuses == {"pending", "processing", "completed", "failed"}

RowsOf(rows, f) == {k \in 1..Len(rows) : rows[k].slack_file_id = f}

fileExists(rows, f) == RowsOf(rows, f) # {}

\* UNIQUE(slack_file_id): the INSERT fails with SQLITE_CONSTRAINT_UNIQUE
UniqueViolation(rows, f) == \E k \in 1..Len(rows) : rows[k].slack_file_id = f

NewRow(rows, f, status) ==
  [id |-> Len(rows) + 1, slack_file_id |-> f, status |-> status,
   error_message |-> NULL, retry_count |-> 0,
   drive_file_id |-> NoDriveFile, drive_file_name |-> NoDriveFile,
   drive_file_url |-> NoDriveFile, drive_folder_path |-> NoDriveFile,
   uploaded_at |-> FALSE]

\* variant: the table has no UNIQUE constraint on slack_file_id
insertUploadRows_NoUnique(rows, f, status) == Append(rows, NewRow(rows, f, status))

\* the table after insertUpload
insertUploadRows(rows, f, status) ==
  IF UniqueViolation(rows, f) THEN rows ELSE Append(rows, NewRow(rows, f, status))

\* variant: the row id is answered on a duplicate as well
insertUploadResult_LastRowid(rows, f, status) == Len(rows) + 1

\* the value insertUpload returns: lastInsertRowid, or null (0) on a duplicate
insertUploadResult(rows, f, status) ==
  IF UniqueViolation(rows, f) THEN 0 ELSE Len(rows) + 1

\* what updateUpload returns: false when no allow-listed field is named or
\* no row matches (info.changes = 0)
updateUploadResult(rows, f, updates) ==
  /\ DOMAIN updates \cap allowedFields # {}
  /\ fileExists(rows, f)

\* variant: every field named in the update is written
updateUpload_AnyField(rows, f, updates) ==
  [k \in 1..Len(rows) |->
     IF rows[k].slack_file_id = f
     THEN [c \in DOMAIN rows[k] |->
             IF c \in DOMAIN updates THEN updates[c] ELSE rows[k][c]]
     ELSE rows[k]]

\* the table after updateUpload: only allow-listed fields are written
updateUpload(rows, f, updates) ==
  LET fields == DOMAIN updates \cap allowedFields
  IN [k \in 1..Len(rows) |->
        IF rows[k].slack_file_id = f
        THEN [c \in DOMAIN rows[k] |->
                IF c \in fields THEN updates[c] ELSE rows[k][c]]
        ELSE rows[k]]

\* getUpload
RowIn(rows, f) == rows[CHOOSE k \in RowsOf(rows, f) : TRUE]

(***************************************************************************)
(* utils/validator.js                                                      *)
(***************************************************************************)
UpperAlnum ==
  {"A", "B", "C", "D", "E", "F", "G", "H", "I", "J", "K", "L", "M", "N", "O",
   "P", "Q", "R", "S", "T", "U", "V", "W", "X", "Y", "Z",
   "0", "1", "2", "3", "4", "5", "6", "7", "8", "9"}

\* s.match(/^<first>[A-Z0-9]{8,}$/), s a sequence of characters
MatchesSlackId(s, first) ==
  /\ Len(s) >= 9
  /\ s[1] \in first
  /\ \A k \in 2..Len(s) : s[k] \in UpperAlnum

\* /[<>:"|?*\x00-\x1f]/ (of the control characters, tab and line feed)
dangerousChars == {"<", ">", ":", "\"", "|", "?", "*", "\t", "\n"}

\* Each validator answers its error message, NULL when the value is valid.
\* The messages stand without the values the code interpolates into them.
validateFileSize(fileSize) ==
  IF fileSize <= 0 THEN "Invalid file size"
  ELSE IF fileSize > maxFileSizeBytes
       THEN "File size exceeds maximum allowed size"
  ELSE NULL

validateMimeType(mimeType) ==
  IF mimeType = "" THEN "Invalid MIME type"
  ELSE IF mimeType \notin allowedImageTypes THEN "MIME type is not allowed"
  ELSE NULL

validateUserId(userId) ==
  IF userId = <<>> THEN "Invalid user ID"
  ELSE IF ~MatchesSlackId(userId, {"U", "W"}) THEN "Invalid Slack user ID format"
  ELSE IF userId # targetUserId THEN "User is not authorized to upload files"
  ELSE NULL

\* variant: the format of the file id is not checked
validateFileId_AnyFormat(fileId) ==
  IF fileId = <<>> THEN "Invalid file ID" ELSE NULL

validateFileId(fileId) ==
  IF fileId = <<>> THEN "Invalid file ID"
  ELSE IF ~MatchesSlackId(fileId, {"F"}) THEN "Invalid Slack file ID format"
  ELSE NULL

validateFilename(filename) ==
  IF filename = <<>> THEN "Invalid filename"
  ELSE IF \E k \in 1..Len(filename) : filename[k] \in dangerousChars
       THEN "Filename contains invalid characters"
  ELSE IF Len(filename) > 255 THEN "Filename is too long (max 255 characters)"
  ELSE NULL

\* the errors array of validateFileUpload
ValidationErrors(info) ==
  SelectSeq(<< validateFileId(info.id), validateUserId(info.user),
               validateFilename(info.name), validateMimeType(info.mimetype),
               validateFileSize(info.size) >>,
            LAMBDA e : e # NULL)

\* validation.valid
validateFileUpload(info) == Len(ValidationErrors(info)) = 0

\* errors.join('; ')
RECURSIVE Join(_)
Join(errors) ==
  IF Len(errors) = 0 THEN ""
  ELSE IF Len(errors) = 1 THEN errors[1]
  ELSE errors[1] \o "; " \o Join(Tail(errors))

\* variant: only the first error is kept
ValidationError_FirstOnly(info) == Head(ValidationErrors(info))

\* the error message recorded for a file that failed validation
ValidationError(info) == Join(ValidationErrors(info))

(***************************************************************************)
(* services/helpers/classificationRules.js                                 *)
(*                                                                         *)
(* Scores are integers: a sub-score, a weight or an adjustment x of the    *)
(* code is x * Unit here, a priority p is p * 100, and a score after the   *)
(* priority adjustment s is s * Unit * 100.  A label's confidence is given *)
(* in hundredths.  With these units every product of the scorer is exact.  *)
(* Category names and keywords written in Hangul in the code appear under  *)
(* an English name; the contexts and labels of the model are ASCII text,   *)
(* which no Hangul keyword matches, so those keywords are left out.        *)
(***************************************************************************)
Unit == 100000
One == Unit * 100

\* the function f and the sequence s themselves, with their values computed
\* once instead of at every use
Computed(f) == f @@ f
Listed(s) == s \o <<>>

Min(a, b) == IF a <= b THEN a ELSE b
Max(a, b) == IF a >= b THEN a ELSE b

UpperLetters == <<"A", "B", "C", "D", "E", "F", "G", "H", "I", "J", "K", "L", "M",
                  "N", "O", "P", "Q", "R", "S", "T", "U", "V", "W", "X", "Y", "Z">>
LowerLetters == <<"a", "b", "c", "d", "e", "f", "g", "h", "i", "j", "k", "l", "m",
                  "n", "o", "p", "q", "r", "s", "t", "u", "v", "w", "x", "y", "z">>

\* the letters of alphabet `from` mapped to those of alphabet `to`
LetterMap(from, to) ==
  Computed([ch \in {from[k] : k \in 1..26} |-> to[CHOOSE k \in 1..26 : from[k] = ch]])

LowerCaseOf == LetterMap(UpperLetters, LowerLetters)
UpperCaseOf == LetterMap(LowerLetters, UpperLetters)

\* the text s with each letter in the domain of `map` replaced by its image
RECURSIVE MapLetters(_, _)
MapLetters(s, map) ==
  IF Len(s) = 0 THEN ""
  ELSE IF Len(s) = 1 THEN (IF s \in DOMAIN map THEN map[s] ELSE s)
  ELSE LET half == Len(s) \div 2
       IN MapLetters(SubSeq(s, 1, half), map) \o MapLetters(SubSeq(s, half + 1, Len(s)), map)

\* String.prototype.toLowerCase and toUpperCase
toLowerCase(s) == MapLetters(s, LowerCaseOf)
toUpperCase(s) == MapLetters(s, UpperCaseOf)

\* String.prototype.includes
includes(s, t) ==
  \E k \in 1..(Len(s) - Len(t) + 1) : SubSeq(s, k, k + Len(t) - 1) = t

\* Array.prototype.join(' ')
RECURSIVE JoinSpace(_)
JoinSpace(texts) ==
  IF Len(texts) = 0 THEN ""
  ELSE IF Len(texts) = 1 THEN texts[1]
  ELSE texts[1] \o " " \o JoinSpace(Tail(texts))

\* array.filter((label, index, self) => self.indexOf(label) === index)
RECURSIVE RemoveDuplicates(_)
RemoveDuplicates(s) ==
  IF Len(s) = 0 THEN <<>>
  ELSE LET front == RemoveDuplicates(SubSeq(s, 1, Len(s) - 1))
           last == s[Len(s)]
       IN IF \E k \in 1..Len(front) : front[k] = last THEN front ELSE Append(front, last)

\* the keys of BASE_RULES, in the order the object literal lists them
SOLO == "Character illustration (solo)"
GROUP == "Illustration (group)"
UI == "UI / screen"
GAME == "Game screenshot"
MISC == "Other"
CategoryOrder == <<SOLO, GROUP, UI, GAME, MISC>>
Categories == {CategoryOrder[k] : k \in 1..Len(CategoryOrder)}
IndexOf(c) == CHOOSE k \in 1..Len(CategoryOrder) : CategoryOrder[k] = c

BASE_RULES ==
  (SOLO :> [
     keywords |-> <<"character", "solo", "single", "illustration", "drawing", "portrait",
                    "char", "persona", "one", "alone">>,
     visionLabels |-> <<"Graphics", "Animation", "Fictional character", "Graphic design",
                        "Animated cartoon", "Fiction", "Anime", "Hero", "Costume", "Cartoon",
                        "person", "character", "anime", "cartoon", "drawing", "art",
                        "illustration", "sketch", "portrait", "face", "manga", "comic",
                        "human", "figure", "character design">>,
     antiLabels |-> <<"crowd", "group", "people", "team", "landscape", "scenery">>,
     hasText |-> "false",
     priority |-> 85 ]) @@
  (GROUP :> [
     keywords |-> <<"illustration", "group", "team", "multiple", "many", "background",
                    "landscape", "scenery", "environment", "several", "bg", "scene">>,
     visionLabels |-> <<"Animation", "Fiction", "Fictional character", "Animated cartoon",
                        "Anime", "Cartoon", "Hero", "CG artwork", "Graphics", "PC game",
                        "people", "group", "crowd", "team", "illustration", "art", "drawing",
                        "landscape", "sky", "mountain", "nature", "scenery", "environment",
                        "outdoor", "building", "architecture", "city", "forest", "ocean",
                        "background", "scene", "anime", "cartoon">>,
     antiLabels |-> <<"High-rise building", "Cityscape", "Skyscraper", "Animation", "Tower">>,
     hasText |-> "false",
     priority |-> 80 ]) @@
  (UI :> [
     keywords |-> <<"ui", "ux", "design", "screen", "interface", "mockup", "prototype",
                    "app", "web", "button", "layout", "menu">>,
     visionLabels |-> <<"Animation", "Animated cartoon", "Video Game Software", "Anime",
                        "Fictional character", "Screenshot", "Graphic design",
                        "High-rise building", "Game", "PC game", "user interface",
                        "mobile app", "website", "application", "software", "screen",
                        "display", "button", "menu", "icon", "logo", "design", "mockup",
                        "prototype", "dashboard", "webpage", "ui design">>,
     antiLabels |-> <<"Diagram", "Graphic design", "Screenshot", "Plan", "Animation",
                      "Graphics", "Video Game Software">>,
     hasText |-> "true",
     priority |-> 82 ]) @@
  (GAME :> [
     keywords |-> <<"game", "gaming", "gameplay", "play", "screenshot", "capture",
                    "screencap", "ss", "cap", "ingame">>,
     visionLabels |-> <<"Animation", "Video Game Software", "Fictional character", "PC game",
                        "Screenshot", "Graphics", "Graphic design", "game", "video game",
                        "gaming", "gameplay", "screenshot", "game screen", "computer monitor",
                        "display", "screen", "window", "desktop", "game ui", "hud",
                        "health bar", "game interface">>,
     antiLabels |-> <<>>,
     hasText |-> "false",
     priority |-> 86 ]) @@
  (MISC :> [
     keywords |-> <<"other", "misc", "miscellaneous", "uncategorized", "various", "unclear">>,
     visionLabels |-> <<>>,
     antiLabels |-> <<>>,
     hasText |-> "false",
     priority |-> 79 ])

\* variant: the static labels come first, the learned ones after them
mergeEntry_StaticFirst(base, learned) ==
  [ keywords |-> base.keywords,
    priority |-> IF learned.recommendedPriority # 0 THEN learned.recommendedPriority
                 ELSE base.priority,
    hasText |-> IF learned.hasText # "undefined" THEN learned.hasText ELSE base.hasText,
    visionLabels |-> RemoveDuplicates(base.visionLabels \o learned.requiredLabels
                                      \o learned.recommendedLabels),
    antiLabels |-> RemoveDuplicates(base.antiLabels \o learned.antiLabels) ]

\* the entry mergeRules builds from a base rule and an applied overlay entry,
\* whose recommendedPriority is 0 and whose hasText is "undefined" when the
\* key is absent from the overlay
mergeEntry(base, learned) ==
  [ keywords |-> base.keywords,
    priority |-> IF learned.recommendedPriority # 0 THEN learned.recommendedPriority
                 ELSE base.priority,
    hasText |-> IF learned.hasText # "undefined" THEN learned.hasText ELSE base.hasText,
    visionLabels |-> RemoveDuplicates(learned.requiredLabels \o learned.recommendedLabels
                                      \o base.visionLabels),
    antiLabels |-> RemoveDuplicates(learned.antiLabels \o base.antiLabels) ]

\* variant: the noChanges flag of an overlay entry is not looked at
mergeRules_FlagIgnored(baseRules, learned) ==
  Computed([category \in DOMAIN baseRules |->
              IF category \notin DOMAIN learned
              THEN baseRules[category]
              ELSE mergeEntry(baseRules[category], learned[category])])

\* mergeRules: learned maps the categories of the overlay to their entries
mergeRules(baseRules, learned) ==
  Computed([category \in DOMAIN baseRules |->
              IF category \notin DOMAIN learned \/ learned[category].noChanges
              THEN baseRules[category]
              ELSE mergeEntry(baseRules[category], learned[category])])

\* CATEGORY_RULES, computed once when the module is loaded
CATEGORY_RULES == mergeRules(BASE_RULES, learnedRules)

\* extractContextText
extractContextText(context) ==
  IF "messages" \notin DOMAIN context THEN ""
  ELSE JoinSpace(Listed([k \in 1..Len(context.messages) |-> context.messages[k].text]))

\* analyzeKeywords: half a point per keyword of the category found in the context
analyzeKeywords(rules, context) ==
  LET contextText == toLowerCase(extractContextText(context)) IN
  Computed([category \in DOMAIN rules |->
    IF contextText = "" THEN 0
    ELSE LET keywords == rules[category].keywords
             matchCount == Cardinality({k \in 1..Len(keywords) :
                                          includes(contextText, toLowerCase(keywords[k]))})
         IN Min((matchCount * Unit) \div 2, Unit)])

\* labelTexts.find(lt => lt.includes(label) || label.includes(lt)): the index of
\* the first label of the image matching the rule's label, 0 when there is none
FindLabel(labelTexts, ruleLabel) ==
  LET wanted == toLowerCase(ruleLabel)
      hits == {k \in 1..Len(labelTexts) :
                 includes(labelTexts[k], wanted) \/ includes(wanted, labelTexts[k])}
  IN IF hits = {} THEN 0 ELSE CHOOSE k \in hits : \A h \in hits : k <= h

\* labels.find(l => l.description.toLowerCase() === matchedLabel).score, in
\* units; an empty matched text counts as no match
MatchedScore(labels, labelTexts, ruleLabel) ==
  LET found == FindLabel(labelTexts, ruleLabel) IN
  IF found = 0 \/ labelTexts[found] = "" THEN -1
  ELSE LET first == CHOOSE k \in 1..Len(labels) :
                       /\ labelTexts[k] = labelTexts[found]
                       /\ \A h \in 1..(k - 1) : labelTexts[h] # labelTexts[found]
       IN labels[first].score * (Unit \div 100)

RECURSIVE SumSeq(_)
SumSeq(s) == IF Len(s) = 0 THEN 0 ELSE Head(s) + SumSeq(Tail(s))

RECURSIVE MaxSeq(_)
MaxSeq(s) == IF Len(s) = 0 THEN 0 ELSE Max(Head(s), MaxSeq(Tail(s)))

\* variant: 30% of the anti-label's confidence
AntiPenalty_Thirty(score) == (score * 30) \div 100

\* antiLabelObj.score * 0.15
AntiPenalty(score) == (score * 15) \div 100

\* analyzeVisionLabels: the best confidence among the matched labels of the
\* category, less the penalty of each matched anti-label, not below 0
analyzeVisionLabels(rules, labels) ==
  LET labelTexts == Listed([k \in 1..Len(labels) |-> toLowerCase(labels[k].description)]) IN
  Computed([category \in DOMAIN rules |->
    IF Len(labels) = 0 THEN 0
    ELSE LET positive == rules[category].visionLabels
             negative == rules[category].antiLabels
             matchScore ==
               MaxSeq(Listed([k \in 1..Len(positive) |->
                                Max(0, MatchedScore(labels, labelTexts, positive[k]))]))
             penalty ==
               SumSeq(Listed([k \in 1..Len(negative) |->
                                LET a == MatchedScore(labels, labelTexts, negative[k])
                                IN IF a < 0 THEN 0 ELSE AntiPenalty(a)]))
         IN Max(0, matchScore - penalty)])

\* analyzeTextPresence
analyzeTextPresence(rules, textAnalysis) ==
  LET hasText == textAnalysis.hasText
      textLength == Len(textAnalysis.full)
  IN Computed([category \in DOMAIN rules |->
        LET expects == rules[category].hasText IN
        IF expects = "null" THEN Unit \div 2
        ELSE IF expects = "true" /\ hasText /\ textLength > 10
             THEN Min((textLength * Unit) \div 100, Unit)
        ELSE IF expects = "false" /\ (~hasText \/ textLength < 10) THEN Unit
        ELSE Unit \div 5])

\* variant: the method is read from the sub-scores of the first category of the rules
determineMethod_FirstCategory(keywordScores, labelScores, topCategory) ==
  LET keywordScore == keywordScores[CategoryOrder[1]]
      labelScore == labelScores[CategoryOrder[1]]
  IN IF 2 * keywordScore > Unit /\ 2 * labelScore > Unit THEN "hybrid"
     ELSE IF 2 * keywordScore > Unit THEN "keyword_match"
     ELSE IF 2 * labelScore > Unit THEN "vision_api"
     ELSE "low_confidence"

\* determineMethod
determineMethod(keywordScores, labelScores, topCategory) ==
  LET keywordScore == keywordScores[topCategory]
      labelScore == labelScores[topCategory]
  IN IF 2 * keywordScore > Unit /\ 2 * labelScore > Unit THEN "hybrid"
     ELSE IF 2 * keywordScore > Unit THEN "keyword_match"
     ELSE IF 2 * labelScore > Unit THEN "vision_api"
     ELSE "low_confidence"

\* variant: the scores of the previous call are the starting point
ZeroScores_Carried ==
  IF Len(classifications) > 0 /\ "scores" \in DOMAIN classifications[Len(classifications)]
  THEN Computed([category \in Categories |->
                   classifications[Len(classifications)].scores[category] \div 100])
  ELSE [category \in Categories |-> 0]

\* scores[category] = 0 for every category
ZeroScores == [category \in Categories |-> 0]

\* a share of Unit given in hundredths
Hundredths(n) == (n * Unit) \div 100

\* variant: several faces raise the group score and leave the solo score alone
ApplyFaceCount_SoloKept(scores, analysis) ==
  IF "faces" \notin DOMAIN analysis THEN scores
  ELSE LET faceCount == analysis.faces.count IN
       IF faceCount = 1
       THEN [scores EXCEPT ![SOLO] = Min(@ + Hundredths(25), Unit)]
       ELSE IF faceCount >= 2
       THEN [scores EXCEPT ![GROUP] = Min(@ + Hundredths(30), Unit)]
       ELSE IF faceCount = 0
       THEN [scores EXCEPT ![UI] = Min(@ + Hundredths(10), Unit),
                           ![GAME] = Min(@ + Hundredths(10), Unit),
                           ![MISC] = Min(@ + Hundredths(5), Unit)]
       ELSE scores

\* step 4: the face count
ApplyFaceCount(scores, analysis) ==
  IF "faces" \notin DOMAIN analysis THEN scores
  ELSE LET faceCount == analysis.faces.count IN
       IF faceCount = 1
       THEN [scores EXCEPT ![SOLO] = Min(@ + Hundredths(25), Unit)]
       ELSE IF faceCount >= 2
       THEN [scores EXCEPT ![GROUP] = Min(@ + Hundredths(30), Unit),
                           ![SOLO] = Max(@ - Hundredths(20), 0)]
       ELSE IF faceCount = 0
       THEN [scores EXCEPT ![UI] = Min(@ + Hundredths(10), Unit),
                           ![GAME] = Min(@ + Hundredths(10), Unit),
                           ![MISC] = Min(@ + Hundredths(5), Unit)]
       ELSE scores

\* variant: the text length is added and subtracted without Math.min and Math.max
ApplyTextLength_Unclamped(scores, analysis) ==
  IF ~analysis.text.hasText THEN scores
  ELSE LET textLength == Len(analysis.text.full) IN
       IF textLength < 120
       THEN [scores EXCEPT ![SOLO] = @ + Hundredths(15)]
       ELSE IF textLength > 180
       THEN [scores EXCEPT ![GROUP] = @ + Hundredths(20),
                           ![SOLO] = @ - Hundredths(15)]
       ELSE scores

\* step 5: the length of the detected text
ApplyTextLength(scores, analysis) ==
  IF ~analysis.text.hasText THEN scores
  ELSE LET textLength == Len(analysis.text.full) IN
       IF textLength < 120
       THEN [scores EXCEPT ![SOLO] = Min(@ + Hundredths(15), Unit)]
       ELSE IF textLength > 180
       THEN [scores EXCEPT ![GROUP] = Min(@ + Hundredths(20), Unit),
                           ![SOLO] = Max(@ - Hundredths(15), 0)]
       ELSE scores

\* step 6: a brand name in a short text
ApplyLogo(scores, analysis) ==
  IF ~analysis.text.hasText THEN scores
  ELSE LET text == toUpperCase(analysis.text.full)
           textLength == Len(analysis.text.full)
           hasLogos == \/ includes(text, "DYNAMITE") \/ includes(text, "BLUE")
                       \/ includes(text, "ERHA") \/ includes(text, "ERHAV")
                       \/ includes(text, "ERHAVEN")
       IN IF hasLogos /\ textLength < 150
          THEN [scores EXCEPT ![SOLO] = Min(@ + Hundredths(10), Unit)]
          ELSE scores

\* step 7: the share of the dominant colour, in hundredths
ApplyColors(scores, analysis) ==
  IF Len(analysis.colors) = 0 THEN scores
  ELSE LET topColorDominance == analysis.colors[1].pixelFraction IN
       IF topColorDominance > 40
       THEN [scores EXCEPT ![SOLO] = Min(@ + Hundredths(5), Unit)]
       ELSE IF topColorDominance < 25 /\ Len(analysis.colors) >= 3
       THEN [scores EXCEPT ![GROUP] = Min(@ + Hundredths(5), Unit)]
       ELSE scores

\* step 8: scores[category] = score * priority
ApplyPriority(rules, scores) ==
  Computed([category \in DOMAIN scores |-> scores[category] * rules[category].priority])

\* variant: the categories are sorted by ascending score
SortByScore_Ascending(scores) ==
  LET Before(a, b) == \/ scores[a] < scores[b]
                      \/ scores[a] = scores[b] /\ IndexOf(a) < IndexOf(b)
      Position(c) == 1 + Cardinality({d \in Categories : Before(d, c)})
  IN Listed([k \in 1..Len(CategoryOrder) |->
        LET c == CHOOSE c \in Categories : Position(c) = k
        IN [name |-> c, confidence |-> Min(scores[c], One), score |-> scores[c]]])

\* Object.entries(scores).sort((a, b) => b[1] - a[1]).map(...): a stable sort,
\* the categories of equal score keep the order of the rules
SortByScore(scores) ==
  LET Before(a, b) == \/ scores[a] > scores[b]
                      \/ scores[a] = scores[b] /\ IndexOf(a) < IndexOf(b)
      Position(c) == 1 + Cardinality({d \in Categories : Before(d, c)})
  IN Listed([k \in 1..Len(CategoryOrder) |->
        LET c == CHOOSE c \in Categories : Position(c) = k
        IN [name |-> c, confidence |-> Min(scores[c], One), score |-> scores[c]]])

\* what a call that reads a property of undefined ends with
TypeError == [error |-> "TypeError"]

\* the three sub-scores of every category
SubScores(rules, analysis, context) ==
  [ keywordScores |-> analyzeKeywords(rules, context),
    labelScores |-> analyzeVisionLabels(rules, analysis.labels),
    textScores |-> analyzeTextPresence(rules, analysis.text) ]

\* steps 1 to 3: scores[category] += keywordScore * 0.4, labelScore * 0.4 and
\* textScore * 0.3
WeightedScores(sub) ==
  Computed([category \in Categories |->
     ZeroScores[category] + (sub.keywordScores[category] * 4) \div 10
       + (sub.labelScores[category] * 4) \div 10
       + (sub.textScores[category] * 3) \div 10])

\* step 4: the overrides in the order of the code: face count, text length,
\* brand name, colours
AdjustedScores(weighted, analysis) ==
  ApplyColors(ApplyLogo(ApplyTextLength(ApplyFaceCount(weighted, analysis),
                                        analysis), analysis), analysis)

\* classifyImage under the rules `rules`; analyzeTextPresence reads
\* textAnalysis.hasText, which throws when the analysis carries no text
classifyImageWith(rules, analysis, context) ==
  IF "text" \notin DOMAIN analysis THEN TypeError
  ELSE
  LET sub == SubScores(rules, analysis, context)
      keywordScores == sub.keywordScores
      labelScores == sub.labelScores
      weighted == WeightedScores(sub)
      adjusted == AdjustedScores(weighted, analysis)
      scores == ApplyPriority(rules, adjusted)
      sortedCategories == SortByScore(scores)
      topCategory == sortedCategories[1]
  IN [ category |-> topCategory.name,
       confidence |-> topCategory.confidence,
       method |-> determineMethod(keywordScores, labelScores, topCategory.name),
       alternatives |-> SubSeq(sortedCategories, 2, 3),
       scores |-> scores ]

\* classifyImage
classifyImage(analysis, context) == classifyImageWith(CATEGORY_RULES, analysis, context)

\* what AnalysisAgent.analyze makes of the classification: the result it
\* returns, or the error it logs and throws again
analyze(classification) ==
  IF "error" \in DOMAIN classification
  THEN [thrown |-> classification.error]
  ELSE [ category |-> classification.category,
         confidence |-> classification.confidence,
         method |-> classification.method,
         alternatives |-> classification.alternatives ]

\* AnalysisAgent.analyze, step 5: the image's analysis and context are classified
ClassifyImage ==
  /\ Len(classifications) < MaxClassifications
  /\ classifications' = Append(classifications, classifyImage(visionAnalysis, slackContext))
  /\ UNCHANGED <<learnedRules, visionAnalysis, slackContext, agentVars, pipelineVars, eventVars>>

(***************************************************************************)
(* The analyses, contexts and rule overlays the classifier is run on       *)
(***************************************************************************)
\* a text of n characters
RECURSIVE Filler(_)
Filler(n) ==
  IF n <= 0 THEN ""
  ELSE LET half == Filler(n \div 2)
       IN half \o half \o (IF n % 2 = 1 THEN "x" ELSE "")

Label(description, score) == [description |-> description, score |-> score]

LabelLists ==
  { <<>>,
    <<Label("character", 90)>>,
    <<Label("Crowd", 95)>>,
    <<Label("Crowd", 95), Label("character", 90)>>,
    <<Label("Screenshot", 70)>>,
    <<Label("character", 90), Label("Animation", 60), Label("Character", 40)>> }

\* parseText: hasText is set when the image carries text
DetectedTexts ==
  { [hasText |-> FALSE, full |-> ""],
    [hasText |-> TRUE, full |-> "hello world"],
    [hasText |-> TRUE, full |-> "Dynamite Blue"],
    [hasText |-> TRUE, full |-> Filler(130)],
    [hasText |-> TRUE, full |-> Filler(181)] }

ColorLists ==
  { <<>>,
    <<[pixelFraction |-> 50]>>,
    <<[pixelFraction |-> 20], [pixelFraction |-> 15], [pixelFraction |-> 10]>> }

VisionAnalyses ==
  [labels : LabelLists, text : DetectedTexts, colors : ColorLists,
   faces : [count : 0..MaxFaces]]
  \cup [labels : LabelLists, text : DetectedTexts, colors : ColorLists]
  \cup [labels : LabelLists, colors : ColorLists]

SlackContexts ==
  { [messages |-> <<>>],
    [messages |-> <<[text |-> "Game screenshot"]>>],
    [messages |-> <<[text |-> "Team illustration"], [text |-> "group scene"]>>],
    [messages |-> <<[text |-> "Solo character portrait"]>>] }

\* an overlay entry as learn-from-corrections.js writes it
LearnedEntry ==
  [ noChanges |-> FALSE, recommendedPriority |-> 95, hasText |-> "true",
    requiredLabels |-> <<"Crowd">>, recommendedLabels |-> <<>>,
    antiLabels |-> <<"character">> ]

\* the entry written for a category without corrections
UnchangedEntry ==
  [ noChanges |-> TRUE, recommendedPriority |-> 0, hasText |-> "undefined",
    requiredLabels |-> <<>>, recommendedLabels |-> <<>>, antiLabels |-> <<>> ]

\* an entry that names neither a priority nor a text expectation
PartialEntry ==
  [ noChanges |-> FALSE, recommendedPriority |-> 0, hasText |-> "undefined",
    requiredLabels |-> <<"Diagram">>, recommendedLabels |-> <<>>, antiLabels |-> <<>> ]

NoLearnedRules == [category \in {} |-> LearnedEntry]

LearnedRuleSets ==
  { NoLearnedRules,
    (SOLO :> LearnedEntry) @@ (MISC :> PartialEntry),
    (SOLO :> [LearnedEntry EXCEPT !.noChanges = TRUE]) @@ (UI :> UnchangedEntry),
    (GROUP :> [LearnedEntry EXCEPT !.hasText = "undefined", !.requiredLabels = <<>>,
                                   !.recommendedLabels = <<"Hero">>, !.antiLabels = <<"Tower">>]) }

\* no file is being classified
Callers == 1..MaxCallers

\* a caller that has not called getOrCreateCategoryFolder
IdleCall == [pc |-> "idle", category |-> NULL, root |-> 0, result |-> 0]

\* no classification caller has written anything, no folder is known
AgentsAtRest ==
  /\ written = [f \in Files |-> <<>>]
  /\ category_folders = <<>>
  /\ driveFolders = <<>>
  /\ folderCalls = [c \in Callers |-> IdleCall]

ClassifierAtRest ==
  /\ learnedRules = NoLearnedRules
  /\ visionAnalysis = [labels |-> <<>>, colors |-> <<>>]
  /\ slackContext = [messages |-> <<>>]
  /\ classifications = <<>>
  /\ AgentsAtRest

(***************************************************************************)
(* Initial state                                                           *)
(***************************************************************************)
InitPipeline(kinds) ==
  /\ concurrency \in 1..MaxConcurrency
  /\ \E kind \in [Files -> 1..Len(kinds)] :
        \* files are interchangeable: their kinds are drawn up to renaming
        /\ \A f, g \in Files : f < g => kind[f] <= kind[g]
        /\ slackFiles = [f \in Files |-> kinds[kind[f]]]
  /\ uploads = <<>>
  /\ pc = [i \in Invocations |-> "idle"]
  /\ fileOf = [i \in Invocations |-> 0]
  /\ recordId = [i \in Invocations |-> -1]
  /\ attempt = [i \in Invocations |-> 0]
  /\ timer = [i \in Invocations |-> 0]
  /\ requestedDelay = [i \in Invocations |-> 0]
  /\ waited = [i \in Invocations |-> 0]
  /\ tasks = <<>>
  /\ numRunning = 0
  /\ paused = FALSE
  /\ processingScheduled = FALSE
  /\ shutdown = "none"
  /\ drainHandler = FALSE
  /\ attemptsMade = [f \in Files |-> 0]
  /\ sentErrors = [f \in Files |-> 0]
  /\ sentCompletions = [f \in Files |-> 0]
  /\ processedEvents = {}
  /\ clearIn = EVENT_TTL
  /\ firstAge = [e \in Events |-> -1]
  /\ deliveries = [e \in Events |-> 0]
  /\ handledInWindow = [e \in Events |-> 0]

InitWith(kinds) == InitPipeline(kinds) /\ ClassifierAtRest

Init == InitWith(SlackFileKinds)

(***************************************************************************)
(* services/queueService.js: the async.queue behind uploadQueue            *)
(***************************************************************************)
\* variant: the back-off is a blocking wait, nothing else runs during it
Alive_NoBackOff == shutdown # "exited" /\ \A i \in Invocations : pc[i] # "sleep"

\* the process has not exited: callbacks can run
Alive == shutdown # "exited"

\* variant: the loop admits one worker too many
WorkerAvailable_OffByOne(n) == ~paused /\ n <= concurrency

\* loop condition of q.process(): a worker slot is free and the queue runs
WorkerAvailable(n) == ~paused /\ n < concurrency

\* number of tasks one call of q.process() starts, n workers already running
RECURSIVE NumToStart(_, _)
NumToStart(len, n) ==
  IF WorkerAvailable(n) /\ len > 0 THEN 1 + NumToStart(len - 1, n + 1) ELSE 0

\* q.idle()
idle(ts, n) == Len(ts) + n = 0

\* variant: retry_count is set to the number of the attempt
AttemptStartUpdate_AttemptNumber(att) == [status |-> "processing", retry_count |-> att]

\* processUploadWithRetry, entry of attempt att: status and retry_count written
AttemptStartUpdate(att) == [status |-> "processing", retry_count |-> att - 1]

\* the table after the first k waiting tasks have been handed to the worker
RECURSIVE StartRows(_, _, _)
StartRows(rows, ts, k) ==
  IF k = 0 THEN rows
  ELSE updateUpload(StartRows(rows, ts, k - 1), fileOf[ts[k]], AttemptStartUpdate(1))

\* q.process(): start waiting tasks, in order, while a worker is available.
\* Starting a task runs the worker up to its first await, i.e. through the
\* entry of processUploadWithRetry(fileInfo, 1).
Dispatch(ts, n, rows, pc0, att0) ==
  LET k == NumToStart(Len(ts), n)
      S == {ts[j] : j \in 1..k}
  IN /\ tasks' = SubSeq(ts, k + 1, Len(ts))
     /\ numRunning' = n + k
     /\ uploads' = StartRows(rows, ts, k)
     /\ pc' = [i \in Invocations |-> IF i \in S THEN "download" ELSE pc0[i]]
     /\ attempt' = [i \in Invocations |-> IF i \in S THEN 1 ELSE att0[i]]
     /\ attemptsMade' = [f \in Files |->
            attemptsMade[f] + Cardinality({i \in S : fileOf[i] = f})]

\* variant: the slot of the job that ended is not released
FinishJob_SlotKept(i, endPc, rows) ==
  /\ Dispatch(tasks, numRunning, rows, [pc EXCEPT ![i] = endPc],
              [attempt EXCEPT ![i] = 0])
  /\ UNCHANGED <<shutdown, drainHandler>>

\* the task callback of async.queue: the slot is released, the push callback
\* settles the addUploadTask promise (endPc), drain is triggered when the
\* queue is idle, and q.process() runs.
FinishJob(i, endPc, rows) ==
  /\ Dispatch(tasks, numRunning - 1, rows, [pc EXCEPT ![i] = endPc],
              [attempt EXCEPT ![i] = 0])
  /\ IF shutdown = "draining" /\ drainHandler /\ idle(tasks, numRunning - 1)
     THEN shutdown' = "exited" /\ drainHandler' = FALSE
     ELSE UNCHANGED <<shutdown, drainHandler>>

\* setImmediate(q.process) scheduled by push() or resume() fires
Process ==
  /\ Alive
  /\ processingScheduled
  /\ processingScheduled' = FALSE
  /\ Dispatch(tasks, numRunning, uploads, pc, attempt)
  /\ UNCHANGED <<concurrency, slackFiles, fileOf, recordId, timer,
                 requestedDelay, waited, paused, shutdown, drainHandler, sentErrors, sentCompletions, eventVars, classifyVars>>

pauseQueue ==
  /\ Alive
  /\ ~paused
  /\ paused' = TRUE
  /\ UNCHANGED <<concurrency, slackFiles, uploads, pc, fileOf, recordId, attempt,
                 timer, requestedDelay, waited, tasks, numRunning,
                 processingScheduled, shutdown, drainHandler,
                 attemptsMade, sentErrors, sentCompletions, eventVars, classifyVars>>

\* variant: resume() clears the flag without scheduling q.process()
resumeQueue_NoProcess ==
  /\ Alive
  /\ paused
  /\ paused' = FALSE
  /\ UNCHANGED <<concurrency, slackFiles, uploads, pc, fileOf, recordId, attempt,
                 timer, requestedDelay, waited, tasks, numRunning,
                 processingScheduled, shutdown, drainHandler,
                 attemptsMade, sentErrors, sentCompletions, eventVars, classifyVars>>

resumeQueue ==
  /\ Alive
  /\ paused
  /\ paused' = FALSE
  /\ processingScheduled' = TRUE
  /\ UNCHANGED <<concurrency, slackFiles, uploads, pc, fileOf, recordId, attempt,
                 timer, requestedDelay, waited, tasks, numRunning,
                 shutdown, drainHandler,
                 attemptsMade, sentErrors, sentCompletions, eventVars, classifyVars>>

\* variant: the task is put in front of the waiting ones (q.unshift)
push_Unshift(ts, i) == <<i>> \o ts

\* uploadQueue.push(task): the task is appended to the waiting ones
push(ts, i) == Append(ts, i)

\* q.kill(): every handler is removed and the waiting tasks are dropped
killQueue ==
  /\ Alive
  /\ tasks' = <<>>
  /\ drainHandler' = FALSE
  /\ UNCHANGED <<concurrency, slackFiles, uploads, pc, fileOf, recordId, attempt,
                 timer, requestedDelay, waited, numRunning, paused,
                 processingScheduled, shutdown, attemptsMade, sentErrors, sentCompletions, eventVars, classifyVars>>

\* q.remove(task => task.data.fileInfo.id === fileId)
removeTask(f) ==
  /\ Alive
  /\ \E j \in 1..Len(tasks) : fileOf[tasks[j]] = f
  /\ tasks' = SelectSeq(tasks, LAMBDA i : fileOf[i] # f)
  /\ UNCHANGED <<concurrency, slackFiles, uploads, pc, fileOf, recordId, attempt,
                 timer, requestedDelay, waited, numRunning, paused,
                 processingScheduled, shutdown, drainHandler,
                 attemptsMade, sentErrors, sentCompletions, eventVars, classifyVars>>

\* SIGTERM/SIGINT: server.js gracefulShutdown -> queueService.gracefulShutdown:
\* pauseQueue(), then waitForDrain(timeout); an idle queue resolves at once
\* and the server calls process.exit
gracefulShutdown ==
  /\ shutdown = "none"
  /\ paused' = TRUE
  /\ IF idle(tasks, numRunning)
     THEN /\ shutdown' = "exited"
          /\ UNCHANGED drainHandler
     ELSE /\ shutdown' = "draining"
          /\ drainHandler' = TRUE
  /\ UNCHANGED <<concurrency, slackFiles, uploads, pc, fileOf, recordId, attempt,
                 timer, requestedDelay, waited, tasks, numRunning,
                 processingScheduled, attemptsMade, sentErrors, sentCompletions,
                 eventVars, classifyVars>>

\* variant: the timeout ends the shutdown without killQueue()
DrainTimeout_NoKill ==
  /\ shutdown = "draining"
  /\ drainHandler' = FALSE
  /\ shutdown' = "exited"
  /\ UNCHANGED <<concurrency, slackFiles, uploads, pc, fileOf, recordId, attempt,
                 timer, requestedDelay, waited, tasks, numRunning, paused,
                 processingScheduled, attemptsMade, sentErrors, sentCompletions, eventVars, classifyVars>>

\* waitForDrain's timeout fires: reject, killQueue(), then process.exit.
\* The jobs in flight answer after arbitrary durations, so the timeout can
\* elapse at any point of their progress.
DrainTimeout ==
  /\ shutdown = "draining"
  /\ tasks' = <<>>
  /\ drainHandler' = FALSE
  /\ shutdown' = "exited"
  /\ UNCHANGED <<concurrency, slackFiles, uploads, pc, fileOf, recordId, attempt,
                 timer, requestedDelay, waited, numRunning, paused,
                 processingScheduled, attemptsMade, sentErrors, sentCompletions, eventVars, classifyVars>>

(***************************************************************************)
(* server.js: handleFileSharedEvent                                        *)
(***************************************************************************)
\* the next unused invocation
IsNext(i) == pc[i] = "idle" /\ \A j \in 1..(i - 1) : pc[j] # "idle"

\* variant: the duplicate signal of insertUpload is ignored
RecordIdMissing_Ignored(id) == FALSE

\* server.js `if (!recordId)`: insertUpload signalled a duplicate
RecordIdMissing(id) == id = 0

\* the handler is entered for a notification carrying file f: the fileExists
\* check, then the files.info request is sent
handleFileSharedEvent(i, f) ==
  /\ Alive
  /\ IsNext(i)
  /\ fileOf' = [fileOf EXCEPT ![i] = f]
  /\ pc' = [pc EXCEPT ![i] = IF fileExists(uploads, f) THEN "skipped" ELSE "getFileInfo"]
  /\ UNCHANGED <<concurrency, slackFiles, uploads, recordId, attempt, timer, requestedDelay, waited, tasks, numRunning, paused,
                 processingScheduled, shutdown, drainHandler,
                 attemptsMade, sentErrors, sentCompletions, eventVars, classifyVars>>

\* slackService.getFileInfo rejects: the handler's catch logs and returns
GetFileInfoThrows(i) ==
  /\ Alive
  /\ pc[i] = "getFileInfo"
  /\ pc' = [pc EXCEPT ![i] = "infoError"]
  /\ UNCHANGED <<concurrency, slackFiles, uploads, fileOf, recordId, attempt,
                 timer, requestedDelay, waited, tasks, numRunning,
                 paused, processingScheduled, shutdown, drainHandler,
                 attemptsMade, sentErrors, sentCompletions, eventVars, classifyVars>>

\* slackService.getFileInfo resolves: validation; an invalid file is recorded
\* as failed with its validation message, a valid one goes on to users.info
GetFileInfoReturns(i) ==
  LET f == fileOf[i]
      info == slackFiles[f]
  IN /\ Alive
     /\ pc[i] = "getFileInfo"
     /\ IF validateFileUpload(info)
        THEN /\ pc' = [pc EXCEPT ![i] = "getUserInfo"]
             /\ UNCHANGED uploads
        ELSE /\ uploads' = updateUpload(insertUploadRows(uploads, f, "failed"), f,
                                        [error_message |-> ValidationError(info)])
             /\ pc' = [pc EXCEPT ![i] = "rejected"]
     /\ UNCHANGED <<concurrency, slackFiles, fileOf, recordId, attempt,
                    timer, requestedDelay, waited, tasks, numRunning,
                    paused, processingScheduled, shutdown, drainHandler,
                    attemptsMade, sentErrors, sentCompletions, eventVars, classifyVars>>

\* slackService.getUserInfo resolves (it never rejects): insertUpload as
\* pending; on a duplicate signal return, otherwise addUploadTask pushes the
\* task, which schedules q.process()
GetUserInfoReturns(i) ==
  LET f == fileOf[i]
      id == insertUploadResult(uploads, f, "pending")
  IN /\ Alive
     /\ pc[i] = "getUserInfo"
     /\ uploads' = insertUploadRows(uploads, f, "pending")
     /\ recordId' = [recordId EXCEPT ![i] = id]
     /\ IF RecordIdMissing(id)
        THEN /\ pc' = [pc EXCEPT ![i] = "duplicate"]
             /\ UNCHANGED <<tasks, processingScheduled>>
        ELSE /\ pc' = [pc EXCEPT ![i] = "queued"]
             /\ tasks' = push(tasks, i)
             /\ processingScheduled' = TRUE
     /\ UNCHANGED <<concurrency, slackFiles, fileOf, attempt, timer,
                    requestedDelay, waited, numRunning, paused, shutdown,
                    drainHandler, attemptsMade, sentErrors,
                    sentCompletions, eventVars, classifyVars>>

(***************************************************************************)
(* server.js: processUploadWithRetry                                       *)
(***************************************************************************)
RECURSIVE Pow2(_)
Pow2(n) == IF n <= 0 THEN 1 ELSE 2 * Pow2(n - 1)

\* variant: one retry too many
ShouldRetry_OffByOne(att) == att <= maxAttempts

\* `if (attempt < maxAttempts)` in the catch block
ShouldRetry(att) == att < maxAttempts

\* variant: the exponent starts at 0
RetryDelay_FromZero(att) == Pow2(att - 1) * delayMs

\* Math.pow(2, attempt) * config.retry.delayMs
RetryDelay(att) == Pow2(att) * delayMs

\* variant: every failed attempt is recorded as failed before the retry
RowsOnRetry_MarkedFailed(rows, f, err) ==
  updateUpload(rows, f, [status |-> "failed", error_message |-> err])

\* the table after a failed attempt that is retried: the retry branch of the
\* catch block writes nothing
RowsOnRetry(rows, f, err) == rows

\* variant: the number of retries made is recorded
FailedUpdate_RetriesMade(err) ==
  [status |-> "failed", error_message |-> err, retry_count |-> maxAttempts - 1]

\* the update written when all retries failed
FailedUpdate(err) ==
  [status |-> "failed", error_message |-> err, retry_count |-> maxAttempts]

\* fileInfo.channels && fileInfo.channels[0]
HasChannelId(info) == Len(info.channels) > 0

\* slackService.downloadFileStream resolves: driveService.uploadFile is called
DownloadOk(i) ==
  /\ Alive
  /\ pc[i] = "download"
  /\ pc' = [pc EXCEPT ![i] = "upload"]
  /\ UNCHANGED <<concurrency, slackFiles, uploads, fileOf, recordId, attempt,
                 timer, requestedDelay, waited, tasks, numRunning,
                 paused, processingScheduled, shutdown, drainHandler,
                 attemptsMade, sentErrors, sentCompletions, eventVars, classifyVars>>

\* the catch block of processUploadWithRetry for error err
AttemptFails(i, err) ==
  LET f == fileOf[i]
      failedRows == updateUpload(uploads, f, FailedUpdate(err))
  IN /\ IF ShouldRetry(attempt[i])
        THEN /\ requestedDelay' = [requestedDelay EXCEPT ![i] = RetryDelay(attempt[i])]
             /\ timer' = [timer EXCEPT ![i] = RetryDelay(attempt[i])]
             /\ waited' = [waited EXCEPT ![i] = 0]
             /\ pc' = [pc EXCEPT ![i] = "sleep"]
             /\ uploads' = RowsOnRetry(uploads, f, err)
             /\ UNCHANGED <<attempt, tasks, numRunning, shutdown,
                            drainHandler, attemptsMade, sentErrors>>
        ELSE /\ UNCHANGED <<requestedDelay, timer, waited>>
             /\ IF HasChannelId(slackFiles[f])
                THEN /\ uploads' = failedRows
                     /\ sentErrors' = [sentErrors EXCEPT ![f] = @ + 1]
                     /\ pc' = [pc EXCEPT ![i] = "notifyErr"]
                     /\ UNCHANGED <<attempt, tasks, numRunning, shutdown,
                                    drainHandler, attemptsMade>>
                ELSE /\ FinishJob(i, "caught", failedRows)
                     /\ UNCHANGED sentErrors
     /\ UNCHANGED <<concurrency, slackFiles, fileOf, recordId, paused,
                    processingScheduled, sentCompletions, eventVars, classifyVars>>

\* slackService.downloadFileStream rejects
DownloadFails(i) ==
  /\ Alive
  /\ pc[i] = "download"
  /\ AttemptFails(i, "download failed")

\* driveService.uploadFile rejects
UploadFails(i) ==
  /\ Alive
  /\ pc[i] = "upload"
  /\ AttemptFails(i, "upload failed")

\* what driveService.uploadFile resolves with for file f
driveFile(f) ==
  [id |-> <<"drive", f>>, name |-> <<"name", f>>, url |-> <<"url", f>>,
   folderId |-> <<"folder">>]

\* variant: the success update sets the status and the Drive file id only
CompletedUpdate_IdOnly(f) ==
  [status |-> "completed", drive_file_id |-> driveFile(f).id]

\* the update processUploadWithRetry writes after the upload succeeded
CompletedUpdate(f) ==
  [status |-> "completed",
   drive_file_id |-> driveFile(f).id,
   drive_file_name |-> driveFile(f).name,
   drive_file_url |-> driveFile(f).url,
   drive_folder_path |-> driveFile(f).folderId,
   uploaded_at |-> TRUE]

\* driveService.uploadFile resolves: the record is completed, then the
\* completion message is sent when the file has a channel
UploadOk(i) ==
  LET f == fileOf[i]
      doneRows == updateUpload(uploads, f, CompletedUpdate(f))
  IN /\ Alive
     /\ pc[i] = "upload"
     /\ IF HasChannelId(slackFiles[f])
        THEN /\ uploads' = doneRows
             /\ sentCompletions' = [sentCompletions EXCEPT ![f] = @ + 1]
             /\ pc' = [pc EXCEPT ![i] = "notifyOk"]
             /\ UNCHANGED <<attempt, tasks, numRunning, shutdown, drainHandler,
                            attemptsMade>>
        ELSE /\ FinishJob(i, "resolved", doneRows)
             /\ UNCHANGED sentCompletions
     /\ UNCHANGED <<concurrency, slackFiles, fileOf, recordId, timer,
                    requestedDelay, waited, paused, processingScheduled,
                    sentErrors, eventVars, classifyVars>>

\* slackClient.chat.postMessage rejects or answers not ok in the file's channel
PostMessageFails(info) == Head(info.channels) \in ClosedChannels

\* sendCompletionMessage returns after the message was posted:
\* processUploadWithRetry returns and the job ends
CompletionMessageDone(i) ==
  /\ Alive
  /\ pc[i] = "notifyOk"
  /\ ~PostMessageFails(slackFiles[fileOf[i]])
  /\ FinishJob(i, "resolved", uploads)
  /\ UNCHANGED <<concurrency, slackFiles, fileOf, recordId, timer,
                 requestedDelay, waited, paused, processingScheduled,
                 sentErrors, sentCompletions, eventVars, classifyVars>>

\* sendErrorMessage returns after the message was posted:
\* processUploadWithRetry rethrows the upload's error and the job ends
ErrorMessageDone(i) ==
  /\ Alive
  /\ pc[i] = "notifyErr"
  /\ ~PostMessageFails(slackFiles[fileOf[i]])
  /\ FinishJob(i, "caught", uploads)
  /\ UNCHANGED <<concurrency, slackFiles, fileOf, recordId, timer,
                 requestedDelay, waited, paused, processingScheduled,
                 sentErrors, sentCompletions, eventVars, classifyVars>>

\* the back-off setTimeout fires: processUploadWithRetry(fileInfo, attempt + 1)
RetryTimerFires(i) ==
  LET f == fileOf[i]
  IN /\ Alive
     /\ pc[i] = "sleep"
     /\ timer[i] = 0
     /\ attempt' = [attempt EXCEPT ![i] = @ + 1]
     /\ uploads' = updateUpload(uploads, f, AttemptStartUpdate(attempt[i] + 1))
     /\ attemptsMade' = [attemptsMade EXCEPT ![f] = @ + 1]
     /\ pc' = [pc EXCEPT ![i] = "download"]
     /\ requestedDelay' = [requestedDelay EXCEPT ![i] = 0]
     /\ waited' = [waited EXCEPT ![i] = 0]
     /\ UNCHANGED <<concurrency, slackFiles, fileOf, recordId, timer,
                    tasks, numRunning, paused,
                    processingScheduled, shutdown, drainHandler,
                    sentErrors, sentCompletions, eventVars, classifyVars>>

\* variant: the error of sendMessage leaves sendCompletionMessage and lands
\* in the catch block of processUploadWithRetry
CompletionMessageFails_Propagates(i) ==
  /\ Alive
  /\ pc[i] = "notifyOk"
  /\ PostMessageFails(slackFiles[fileOf[i]])
  /\ AttemptFails(i, "chat.postMessage failed")

\* sendMessage throws in sendCompletionMessage: the catch there logs a
\* warning, processUploadWithRetry returns and the job ends
CompletionMessageFails(i) ==
  /\ Alive
  /\ pc[i] = "notifyOk"
  /\ PostMessageFails(slackFiles[fileOf[i]])
  /\ FinishJob(i, "resolved", uploads)
  /\ UNCHANGED <<concurrency, slackFiles, fileOf, recordId, timer,
                 requestedDelay, waited, paused, processingScheduled,
                 sentErrors, sentCompletions, eventVars, classifyVars>>

\* sendMessage throws in sendErrorMessage: the catch there logs a warning,
\* processUploadWithRetry rethrows the upload's error and the job ends
ErrorMessageFails(i) ==
  /\ Alive
  /\ pc[i] = "notifyErr"
  /\ PostMessageFails(slackFiles[fileOf[i]])
  /\ FinishJob(i, "caught", uploads)
  /\ UNCHANGED <<concurrency, slackFiles, fileOf, recordId, timer,
                 requestedDelay, waited, paused, processingScheduled,
                 sentErrors, sentCompletions, eventVars, classifyVars>>

(***************************************************************************)
(* Time: the pending setTimeout timers count down together; a due timer    *)
(* fires before more time passes.                                          *)
(***************************************************************************)
TickMs == 2 * delayMs

Sleeping == {i \in Invocations : pc[i] = "sleep"}

Tick ==
  /\ Alive
  /\ Sleeping # {}
  /\ \A i \in Sleeping : timer[i] >= TickMs
  /\ timer' = [i \in Invocations |-> IF i \in Sleeping THEN timer[i] - TickMs ELSE timer[i]]
  /\ waited' = [i \in Invocations |-> IF i \in Sleeping THEN waited[i] + TickMs ELSE waited[i]]
  /\ UNCHANGED <<concurrency, slackFiles, uploads, pc, fileOf, recordId, attempt,
                 requestedDelay, tasks, numRunning, paused,
                 processingScheduled, shutdown, drainHandler,
                 attemptsMade, sentErrors, sentCompletions, eventVars, classifyVars>>

(***************************************************************************)
(* The pipeline                                                            *)
(***************************************************************************)
Next ==
  \/ \E i \in Invocations, f \in Files : handleFileSharedEvent(i, f)
  \/ \E i \in Invocations : GetFileInfoThrows(i)
  \/ \E i \in Invocations : GetFileInfoReturns(i)
  \/ \E i \in Invocations : GetUserInfoReturns(i)
  \/ Process
  \/ \E i \in Invocations : DownloadOk(i)
  \/ \E i \in Invocations : DownloadFails(i)
  \/ \E i \in Invocations : UploadOk(i)
  \/ \E i \in Invocations : UploadFails(i)
  \/ \E i \in Invocations : CompletionMessageDone(i)
  \/ \E i \in Invocations : ErrorMessageDone(i)
  \/ \E i \in Invocations : RetryTimerFires(i)
  \/ Tick
  \/ pauseQueue
  \/ resumeQueue
  \/ killQueue
  \/ \E f \in Files : removeTask(f)
  \/ gracefulShutdown
  \/ DrainTimeout

Spec == Init /\ [][Next]_vars

(***************************************************************************)
(* Fair scheduling: pending setImmediate callbacks and due timers run, time *)
(* passes, every collaborator call is eventually answered, a paused queue   *)
(* is eventually resumed, and a scheduled q.process() that can start a      *)
(* waiting task is not forever pre-empted by pauses.                        *)
(***************************************************************************)
ProcessStartsTask == Process /\ numRunning' > numRunning

Fairness ==
  /\ \A i \in Invocations : WF_vars(GetFileInfoReturns(i) \/ GetFileInfoThrows(i))
  /\ \A i \in Invocations : WF_vars(GetUserInfoReturns(i))
  /\ \A i \in Invocations : WF_vars(DownloadOk(i) \/ DownloadFails(i))
  /\ \A i \in Invocations : WF_vars(UploadOk(i) \/ UploadFails(i))
  /\ \A i \in Invocations : WF_vars(CompletionMessageDone(i))
  /\ \A i \in Invocations : WF_vars(ErrorMessageDone(i))
  /\ \A i \in Invocations : WF_vars(RetryTimerFires(i))
  /\ WF_vars(Tick)
  /\ WF_vars(Process)
  /\ SF_vars(ProcessStartsTask)
  /\ WF_vars(resumeQueue)

FairSpec == Spec /\ Fairness

(***************************************************************************)
(* server.js: POST /slack/events and the processedEvents cache             *)
(***************************************************************************)
EventStep == EVENT_TTL \div StepsPerTTL

\* processedEvents.has(event_id)
IsDuplicateEvent(seen, e) == e \in seen

\* setInterval(() => processedEvents.clear(), EVENT_TTL)
ClearedEvents(seen) == {}

\* an event_callback with event id e arrives: a known id is acknowledged and
\* dropped; a new id is added to the set, acknowledged, and its file_shared
\* event is handed to handleFileSharedEvent with setImmediate
PostSlackEvent(e) ==
  /\ deliveries[e] < MaxDeliveries
  /\ deliveries' = [deliveries EXCEPT ![e] = @ + 1]
  /\ IF IsDuplicateEvent(processedEvents, e)
     THEN UNCHANGED <<processedEvents, firstAge, handledInWindow>>
     ELSE /\ processedEvents' = processedEvents \cup {e}
          /\ firstAge' = [firstAge EXCEPT ![e] = IF @ = -1 THEN 0 ELSE @]
          /\ handledInWindow' = [handledInWindow EXCEPT ![e] =
                                   IF firstAge[e] < EVENT_TTL THEN @ + 1 ELSE @]
  /\ UNCHANGED <<clearIn, pipelineVars, classifyVars>>

\* the cleanup interval fires
CleanupTimerFires ==
  /\ clearIn = 0
  /\ processedEvents' = ClearedEvents(processedEvents)
  /\ clearIn' = EVENT_TTL
  /\ UNCHANGED <<firstAge, deliveries, handledInWindow, pipelineVars, classifyVars>>

\* EventStep ms pass; the age of an event id is tracked up to EVENT_TTL
EventTick ==
  /\ clearIn >= EventStep
  /\ clearIn' = clearIn - EventStep
  /\ firstAge' = [e \in Events |->
                    IF firstAge[e] = -1 THEN -1
                    ELSE IF firstAge[e] + EventStep >= EVENT_TTL THEN EVENT_TTL
                    ELSE firstAge[e] + EventStep]
  /\ UNCHANGED <<processedEvents, deliveries, handledInWindow, pipelineVars, classifyVars>>

NextEvents ==
  \/ \E e \in Events : PostSlackEvent(e)
  \/ CleanupTimerFires
  \/ EventTick

SpecEvents == Init /\ [][NextEvents]_vars

(***************************************************************************)
(* Intake alone: notifications for files of every kind are taken in, and   *)
(* the queue starts the tasks pushed for them.                             *)
(***************************************************************************)
InitIntake == InitWith(IntakeFileKinds)

NextIntake ==
  \/ \E i \in Invocations, f \in Files : handleFileSharedEvent(i, f)
  \/ \E i \in Invocations : GetFileInfoThrows(i)
  \/ \E i \in Invocations : GetFileInfoReturns(i)
  \/ \E i \in Invocations : GetUserInfoReturns(i)
  \/ Process

SpecIntake == InitIntake /\ [][NextIntake]_vars

(***************************************************************************)
(* Shutdown with a generous timeout: no notification is taken in once the  *)
(* shutdown has begun, nobody else pauses, resumes or kills the queue, and *)
(* the drain timeout is longer than everything the queue still runs, so it *)
(* elapses only when no job is in flight and no q.process() is pending.    *)
(***************************************************************************)
DrainTimeoutAfterWork ==
  /\ numRunning = 0
  /\ ~processingScheduled
  /\ DrainTimeout

NextDrain ==
  \/ shutdown = "none" /\ \E i \in Invocations, f \in Files : handleFileSharedEvent(i, f)
  \/ shutdown = "none" /\ \E i \in Invocations : GetFileInfoThrows(i)
  \/ shutdown = "none" /\ \E i \in Invocations : GetFileInfoReturns(i)
  \/ shutdown = "none" /\ \E i \in Invocations : GetUserInfoReturns(i)
  \/ Process
  \/ \E i \in Invocations : DownloadOk(i)
  \/ \E i \in Invocations : DownloadFails(i)
  \/ \E i \in Invocations : UploadOk(i)
  \/ \E i \in Invocations : UploadFails(i)
  \/ \E i \in Invocations : CompletionMessageDone(i)
  \/ \E i \in Invocations : ErrorMessageDone(i)
  \/ \E i \in Invocations : RetryTimerFires(i)
  \/ Tick
  \/ gracefulShutdown
  \/ DrainTimeoutAfterWork

SpecDrain == Init /\ [][NextDrain]_vars

(***************************************************************************)
(* The queue under pauseQueue/resumeQueue alone: the files pass validation, *)
(* nobody kills the queue, removes a task or shuts the server down.         *)
(***************************************************************************)
InitPause == InitWith(<<ValidFile>>)

NextPause ==
  \/ \E i \in Invocations, f \in Files : handleFileSharedEvent(i, f)
  \/ \E i \in Invocations : GetFileInfoThrows(i)
  \/ \E i \in Invocations : GetFileInfoReturns(i)
  \/ \E i \in Invocations : GetUserInfoReturns(i)
  \/ Process
  \/ \E i \in Invocations : DownloadOk(i)
  \/ \E i \in Invocations : DownloadFails(i)
  \/ \E i \in Invocations : UploadOk(i)
  \/ \E i \in Invocations : UploadFails(i)
  \/ \E i \in Invocations : CompletionMessageDone(i)
  \/ \E i \in Invocations : ErrorMessageDone(i)
  \/ \E i \in Invocations : RetryTimerFires(i)
  \/ Tick
  \/ pauseQueue
  \/ resumeQueue

\* every collaborator call of a job is answered, due timers and the pending
\* q.process() run, time passes
FairnessPause ==
  /\ \A i \in Invocations : WF_vars(DownloadOk(i) \/ DownloadFails(i))
  /\ \A i \in Invocations : WF_vars(UploadOk(i) \/ UploadFails(i))
  /\ \A i \in Invocations : WF_vars(CompletionMessageDone(i))
  /\ \A i \in Invocations : WF_vars(ErrorMessageDone(i))
  /\ \A i \in Invocations : WF_vars(RetryTimerFires(i))
  /\ WF_vars(Tick)
  /\ WF_vars(Process)

FairSpecPause == InitPause /\ [][NextPause]_vars /\ FairnessPause

(***************************************************************************)
(* The upload store alone: insertUpload and updateUpload are called with   *)
(* every file id, status and update of a sample, in any order.             *)
(***************************************************************************)
UpdateSamples ==
  { [status |-> "completed", drive_file_id |-> <<"drive">>, uploaded_at |-> TRUE],
    [status |-> "failed", error_message |-> "boom", retry_count |-> 3],
    [slack_file_id |-> 0, id |-> 0, created_at |-> 0],
    [id |-> 0, retry_count |-> 1] }

\* insertUpload({slackFileId: f, status}) called by the first invocation,
\* which keeps the result
StoreInsert(f, status) ==
  /\ uploads' = insertUploadRows(uploads, f, status)
  /\ fileOf' = [fileOf EXCEPT ![1] = f]
  /\ recordId' = [recordId EXCEPT ![1] = insertUploadResult(uploads, f, status)]
  /\ UNCHANGED <<concurrency, slackFiles, pc, attempt, timer, requestedDelay,
                 waited, tasks, numRunning, paused, processingScheduled,
                 shutdown, drainHandler, attemptsMade, sentErrors,
                 sentCompletions, eventVars, classifyVars>>

\* updateUpload(f, updates)
StoreUpdate(f, updates) ==
  /\ uploads' = updateUpload(uploads, f, updates)
  /\ UNCHANGED <<concurrency, slackFiles, pc, fileOf, recordId, attempt, timer,
                 requestedDelay, waited, tasks, numRunning, paused,
                 processingScheduled, shutdown, drainHandler, attemptsMade,
                 sentErrors, sentCompletions, eventVars, classifyVars>>

NextStore ==
  \/ \E f \in Files, status \in Statuses : StoreInsert(f, status)
  \/ \E f \in Files, updates \in UpdateSamples : StoreUpdate(f, updates)

SpecStore == InitPause /\ [][NextStore]_vars

(***************************************************************************)
(* Uploads of files shared in channels that accept and in channels that    *)
(* reject the bot's messages; the queue is left to run.                    *)
(***************************************************************************)
InitNotify == InitWith(<<ValidFile, ClosedChannelFile>>)

NextNotify ==
  \/ \E i \in Invocations, f \in Files : handleFileSharedEvent(i, f)
  \/ \E i \in Invocations : GetFileInfoThrows(i)
  \/ \E i \in Invocations : GetFileInfoReturns(i)
  \/ \E i \in Invocations : GetUserInfoReturns(i)
  \/ Process
  \/ \E i \in Invocations : DownloadOk(i)
  \/ \E i \in Invocations : DownloadFails(i)
  \/ \E i \in Invocations : UploadOk(i)
  \/ \E i \in Invocations : UploadFails(i)
  \/ \E i \in Invocations : CompletionMessageDone(i)
  \/ \E i \in Invocations : CompletionMessageFails(i)
  \/ \E i \in Invocations : ErrorMessageDone(i)
  \/ \E i \in Invocations : ErrorMessageFails(i)
  \/ \E i \in Invocations : RetryTimerFires(i)
  \/ Tick

SpecNotify == InitNotify /\ [][NextNotify]_vars

(***************************************************************************)
(* The classifier run on one image: the rules are loaded with some         *)
(* overlay, the image's analysis and context are given, and classifyImage  *)
(* is called on them, more than once.                                      *)
(***************************************************************************)
InitClassify ==
  /\ InitPipeline(<<ValidFile>>)
  /\ concurrency = 1
  /\ learnedRules \in LearnedRuleSets
  /\ visionAnalysis \in VisionAnalyses
  /\ slackContext \in SlackContexts
  /\ classifications = <<>>
  /\ AgentsAtRest

NextClassify == ClassifyImage

SpecClassify == InitClassify /\ [][NextClassify]_vars

(***************************************************************************)
(* The classification agents writing to the upload record: AnalysisAgent   *)
(* after it classified an uploaded image, the interactive handler when the *)
(* user skips, OrganizationAgent when the file was copied to its category  *)
(* folder.  The image's file name, context and Notion columns are left     *)
(* out of the updates.                                                     *)
(***************************************************************************)
\* AnalysisAgent.analyze, step 8: the columns written from the result
AnalysisUpdate(result, analysis) ==
  [ classification_method |-> result.method,
    vision_labels |-> [k \in 1..Len(analysis.labels) |-> analysis.labels[k].description],
    detected_text |-> SubSeq(analysis.text.full, 1, Min(200, Len(analysis.text.full))),
    ai_category |-> result.category,
    ai_confidence |-> result.confidence ]

\* InteractiveHandler.handleSkip: the columns written
SkipUpdate ==
  [ user_category |-> NULL, final_filename |-> NULL,
    feedback_type |-> "Skipped", feedback_tracked |-> 1 ]

\* OrganizationAgent.organize, step 4: the columns written
OrganizeUpdate(f, category) ==
  [ user_category |-> category,
    final_filename |-> driveFile(f).name,
    category_folder_id |-> <<"folder", category>>,
    category_file_id |-> <<"copy", f>>,
    category_file_url |-> <<"https://drive/copy", f>>,
    organized_at |-> TRUE ]

\* the pipeline has uploaded file f: its record was inserted as pending and
\* is completed with the Drive file
RecordCompleted(f) ==
  /\ ~fileExists(uploads, f)
  /\ uploads' = updateUpload(insertUploadRows(uploads, f, "pending"), f, CompletedUpdate(f))
  /\ UNCHANGED <<concurrency, slackFiles, pc, fileOf, recordId, attempt, timer,
                 requestedDelay, waited, tasks, numRunning, paused,
                 processingScheduled, shutdown, drainHandler, attemptsMade,
                 sentErrors, sentCompletions, eventVars, classifyVars>>

\* AnalysisAgent.analyze(fileInfo) for file f: the image is classified and
\* the outcome written with updateUpload; when the classifier throws, the
\* error is thrown again and nothing is written
AnalyzeFile(f) ==
  /\ Len(classifications) < MaxClassifications
  /\ LET classification == classifyImage(visionAnalysis, slackContext)
         result == analyze(classification)
     IN /\ classifications' = Append(classifications, classification)
        /\ IF "thrown" \in DOMAIN result
           THEN UNCHANGED <<uploads, written>>
           ELSE /\ uploads' = updateUpload(uploads, f, AnalysisUpdate(result, visionAnalysis))
                /\ written' = [written EXCEPT ![f] = <<AnalysisUpdate(result, visionAnalysis)>>]
  /\ UNCHANGED <<concurrency, slackFiles, pc, fileOf, recordId, attempt, timer,
                 requestedDelay, waited, tasks, numRunning, paused,
                 processingScheduled, shutdown, drainHandler, attemptsMade,
                 sentErrors, sentCompletions, eventVars,
                 learnedRules, visionAnalysis, slackContext, folderVars>>

\* InteractiveHandler.handleSkip(fileId, payload) for file f
handleSkip(f) ==
  /\ uploads' = updateUpload(uploads, f, SkipUpdate)
  /\ written' = [written EXCEPT ![f] = <<SkipUpdate>>]
  /\ UNCHANGED <<concurrency, slackFiles, pc, fileOf, recordId, attempt, timer,
                 requestedDelay, waited, tasks, numRunning, paused,
                 processingScheduled, shutdown, drainHandler, attemptsMade,
                 sentErrors, sentCompletions, eventVars,
                 learnedRules, visionAnalysis, slackContext, classifications, folderVars>>

\* OrganizationAgent.organize(fileId, userDecision) for file f, the category
\* folder and the copy obtained: without a record that names a Drive file it
\* throws at step 1, otherwise step 4 writes the decision
OrganizeFile(f, category) ==
  /\ fileExists(uploads, f)
  /\ RowIn(uploads, f).drive_file_id # NoDriveFile
  /\ uploads' = updateUpload(uploads, f, OrganizeUpdate(f, category))
  /\ written' = [written EXCEPT ![f] = <<OrganizeUpdate(f, category)>>]
  /\ UNCHANGED <<concurrency, slackFiles, pc, fileOf, recordId, attempt, timer,
                 requestedDelay, waited, tasks, numRunning, paused,
                 processingScheduled, shutdown, drainHandler, attemptsMade,
                 sentErrors, sentCompletions, eventVars,
                 learnedRules, visionAnalysis, slackContext, classifications, folderVars>>

\* the categories the user decides for
DecidedCategories == {SOLO, MISC}

\* the images the agents are run on: no label or one, with or without a
\* text entry
AgentAnalyses ==
  {a \in VisionAnalyses :
     /\ a.labels \in {<<>>, <<Label("character", 90)>>}
     /\ a.colors = <<>>
     /\ "faces" \notin DOMAIN a
     /\ "text" \in DOMAIN a => ~a.text.hasText}

InitAgents ==
  /\ InitPipeline(<<ValidFile>>)
  /\ concurrency = 1
  /\ learnedRules = NoLearnedRules
  /\ visionAnalysis \in AgentAnalyses
  /\ slackContext \in SlackContexts
  /\ classifications = <<>>
  /\ AgentsAtRest

NextAgents ==
  \/ \E f \in Files : RecordCompleted(f)
  \/ \E f \in Files : AnalyzeFile(f)
  \/ \E f \in Files : handleSkip(f)
  \/ \E f \in Files, category \in DecidedCategories : OrganizeFile(f, category)

SpecAgents == InitAgents /\ [][NextAgents]_vars

(***************************************************************************)
(* services/agents/organizationAgent.js: the category folders.  The Drive  *)
(* answers every request; category_name is the key of category_folders.    *)
(***************************************************************************)
ROOT == "__ROOT__"

\* config.classification.rootFolderName and config.drive.folderId
RootFolderName == "AI"
DriveFolderId == 0

\* the id the Drive gives the next folder it creates
NewFolderId == Len(driveFolders) + 1

\* drive.files.list: ids of the folders of that name under that parent
FoldersNamed(parentId, name) ==
  {k \in 1..Len(driveFolders) :
     driveFolders[k].name = name /\ driveFolders[k].parent = parentId}

\* SELECT folder_id FROM category_folders WHERE category_name = ?
Cached(key) == key \in DOMAIN category_folders

\* INSERT OR REPLACE INTO category_folders
InsertOrReplace(cache, key, folderId) == (key :> folderId) @@ cache

\* the caller's files.list for its category under its root folder is sent
SearchCategory(c, rootId) ==
  [folderCalls EXCEPT ![c].pc = "find", ![c].root = rootId]

\* getOrCreateCategoryFolder(categoryName) is called by caller c: a cached
\* folder is returned; otherwise getClassificationRootFolder is entered, a
\* cached root leads on to the search of the category, an unknown root to the
\* search of the root
getOrCreateCategoryFolder(c, categoryName) ==
  /\ folderCalls[c].pc = "idle"
  /\ folderCalls' =
       IF Cached(categoryName)
       THEN [folderCalls EXCEPT ![c].pc = "returned", ![c].category = categoryName,
                                ![c].result = category_folders[categoryName]]
       ELSE IF Cached(ROOT)
       THEN [SearchCategory(c, category_folders[ROOT]) EXCEPT ![c].category = categoryName]
       ELSE [folderCalls EXCEPT ![c].pc = "rootFind", ![c].category = categoryName]
  /\ UNCHANGED <<category_folders, driveFolders, written, learnedRules, visionAnalysis,
                 slackContext, classifications, pipelineVars, eventVars>>

\* findCategoryFolder(parentFolderId, rootFolderName) returns: an existing
\* root is cached and the category searched in it, otherwise the root's
\* creation is requested
RootSearchReturns(c) ==
  /\ folderCalls[c].pc = "rootFind"
  /\ LET found == FoldersNamed(DriveFolderId, RootFolderName) IN
     IF found # {}
     THEN \E id \in found :
             /\ category_folders' = InsertOrReplace(category_folders, ROOT, id)
             /\ folderCalls' = SearchCategory(c, id)
     ELSE /\ folderCalls' = [folderCalls EXCEPT ![c].pc = "rootCreate"]
          /\ UNCHANGED category_folders
  /\ UNCHANGED <<driveFolders, written, learnedRules, visionAnalysis,
                 slackContext, classifications, pipelineVars, eventVars>>

\* drive.files.create of the root returns: the plain INSERT throws when the
\* key is already there, and the call fails; otherwise the category is
\* searched in the new root
RootCreateReturns(c) ==
  /\ folderCalls[c].pc = "rootCreate"
  /\ driveFolders' = Append(driveFolders, [name |-> RootFolderName, parent |-> DriveFolderId])
  /\ IF Cached(ROOT)
     THEN /\ folderCalls' = [folderCalls EXCEPT ![c].pc = "failed"]
          /\ UNCHANGED category_folders
     ELSE /\ category_folders' = InsertOrReplace(category_folders, ROOT, NewFolderId)
          /\ folderCalls' = SearchCategory(c, NewFolderId)
  /\ UNCHANGED <<written, learnedRules, visionAnalysis,
                 slackContext, classifications, pipelineVars, eventVars>>

\* findCategoryFolder(rootFolder.id, categoryName) returns: an existing
\* folder is cached and returned, otherwise its creation is requested
CategorySearchReturns(c) ==
  /\ folderCalls[c].pc = "find"
  /\ LET found == FoldersNamed(folderCalls[c].root, folderCalls[c].category) IN
     IF found # {}
     THEN \E id \in found :
             /\ category_folders' =
                  InsertOrReplace(category_folders, folderCalls[c].category, id)
             /\ folderCalls' = [folderCalls EXCEPT ![c].pc = "returned", ![c].result = id]
     ELSE /\ folderCalls' = [folderCalls EXCEPT ![c].pc = "create"]
          /\ UNCHANGED category_folders
  /\ UNCHANGED <<driveFolders, written, learnedRules, visionAnalysis,
                 slackContext, classifications, pipelineVars, eventVars>>

\* drive.files.create of the category folder returns: the plain INSERT
\* throws when the key is already there, and the call fails; otherwise the
\* folder is cached and returned
CategoryCreateReturns(c) ==
  /\ folderCalls[c].pc = "create"
  /\ driveFolders' = Append(driveFolders, [name |-> folderCalls[c].category,
                                           parent |-> folderCalls[c].root])
  /\ IF Cached(folderCalls[c].category)
     THEN /\ folderCalls' = [folderCalls EXCEPT ![c].pc = "failed"]
          /\ UNCHANGED category_folders
     ELSE /\ category_folders' =
               InsertOrReplace(category_folders, folderCalls[c].category, NewFolderId)
          /\ folderCalls' = [folderCalls EXCEPT ![c].pc = "returned",
                                                ![c].result = NewFolderId]
  /\ UNCHANGED <<written, learnedRules, visionAnalysis,
                 slackContext, classifications, pipelineVars, eventVars>>

\* the Drive and the cache when the callers arrive: nothing yet, the root
\* alone, or the root and one category folder, cached or not
FolderStarts ==
  LET rootOnly == <<[name |-> RootFolderName, parent |-> DriveFolderId]>>
      withSolo == Append(rootOnly, [name |-> SOLO, parent |-> 1])
  IN { [drive |-> <<>>, cache |-> <<>>],
       [drive |-> rootOnly, cache |-> <<>>],
       [drive |-> rootOnly, cache |-> (ROOT :> 1)],
       [drive |-> withSolo, cache |-> <<>>],
       [drive |-> withSolo, cache |-> (ROOT :> 1)],
       [drive |-> withSolo, cache |-> (ROOT :> 1) @@ (SOLO :> 2)] }

InitFolders ==
  /\ InitPipeline(<<ValidFile>>)
  /\ concurrency = 1
  /\ learnedRules = NoLearnedRules
  /\ visionAnalysis = [labels |-> <<>>, colors |-> <<>>]
  /\ slackContext = [messages |-> <<>>]
  /\ classifications = <<>>
  /\ written = [f \in Files |-> <<>>]
  /\ \E start \in FolderStarts :
        /\ driveFolders = start.drive
        /\ category_folders = start.cache
  /\ folderCalls = [c \in Callers |-> IdleCall]

NextFolders ==
  \/ \E c \in Callers, category \in DecidedCategories : getOrCreateCategoryFolder(c, category)
  \/ \E c \in Callers : RootSearchReturns(c)
  \/ \E c \in Callers : RootCreateReturns(c)
  \/ \E c \in Callers : CategorySearchReturns(c)
  \/ \E c \in Callers : CategoryCreateReturns(c)

SpecFolders == InitFolders /\ [][NextFolders]_vars

(***************************************************************************)
(* Properties                                                              *)
(***************************************************************************)
IntakePhases == {"idle", "getFileInfo", "getUserInfo"}
RunningPhases == {"download", "upload", "sleep", "notifyOk", "notifyErr"}
EnqueuedPhases == {"queued", "resolved", "caught"} \cup RunningPhases
Terminal == {"completed", "failed"}

\* invocation i executes a step of handleFileSharedEvent up to its insert
IntakeStep(i) == pc[i] \in IntakePhases /\ pc'[i] # pc[i]

\* the step appends one row for file f to the table and changes nothing else
InsertsRowFor(f) ==
  /\ ~fileExists(uploads, f)
  /\ Len(uploads') = Len(uploads) + 1
  /\ SubSeq(uploads', 1, Len(uploads)) = uploads
  /\ uploads'[Len(uploads')].slack_file_id = f

C1_Step ==
  /\ \A f \in Files : Cardinality(RowsOf(uploads', f)) <= 1
  /\ \A i \in Invocations :
       IntakeStep(i) =>
         /\ uploads' = uploads \/ InsertsRowFor(fileOf'[i])
         /\ pc'[i] \in {"skipped", "rejected", "duplicate", "queued"} =>
              Cardinality(RowsOf(uploads', fileOf'[i])) = 1

\* C1: in every interleaving of handleFileSharedEvent invocations, the table
\* never holds more than one row per slack_file_id; an intake step either
\* leaves the table unchanged or inserts the single row of a file that had
\* none; and when an invocation is through its intake (skipped as existing,
\* rejected, duplicate, or queued) its file has exactly one row.
C1_IdempotentIntake == [][C1_Step]_vars

\* two invocations for one file both passed fileExists; one inserted, the
\* other got the duplicate signal from insertUpload
C1_Witness ==
  \E i, j \in Invocations :
    /\ i # j /\ fileOf[i] = fileOf[j]
    /\ recordId[i] >= 1 /\ recordId[j] = 0 /\ pc[j] = "duplicate"
    /\ Cardinality(RowsOf(uploads, fileOf[i])) = 1

\* C2: no file is ever the file of two pushed tasks, whatever their state
\* (waiting, running, finished), so no file is processed by two workers at once.
C2_EnqueuedAtMostOnce ==
  \A i, j \in Invocations :
    (i # j /\ pc[i] \in EnqueuedPhases /\ pc[j] \in EnqueuedPhases)
      => fileOf[i] # fileOf[j]

\* a duplicate notification ended without a task while the file's job runs
C2_Witness ==
  \E i, j \in Invocations :
    /\ i # j /\ fileOf[i] = fileOf[j]
    /\ pc[i] \in RunningPhases
    /\ pc[j] \in {"duplicate", "skipped"}

\* C4: the jobs in flight, a job in its back-off sleep included, are counted
\* by numRunning and never exceed the configured concurrency.
C4_ConcurrencyBound ==
  /\ numRunning <= concurrency
  /\ Cardinality({i \in Invocations : pc[i] \in RunningPhases}) = numRunning

\* the queue is saturated by a sleeping job while another task waits
C4_Witness ==
  /\ numRunning = concurrency
  /\ Len(tasks) > 0
  /\ \E i \in Invocations : pc[i] = "sleep"

\* C3: the first delivery of an event id is handled, and of all deliveries
\* of that id arriving less than EVENT_TTL after the first, no other is handled.
C3_DedupWithinWindow ==
  \A e \in Events :
    /\ deliveries[e] >= 1 => handledInWindow[e] >= 1
    /\ handledInWindow[e] <= 1

\* C5: every UploadRecord eventually reaches completed or failed.
C5_EventuallyTerminal ==
  \A f \in Files :
    fileExists(uploads, f) ~>
      (fileExists(uploads, f) /\ RowIn(uploads, f).status \in Terminal)

\* C6 (as stated): every failed record has retry_count = maxAttempts.
C6_FailedHasMaxRetryCount ==
  \A k \in 1..Len(uploads) :
    uploads[k].status = "failed" => uploads[k].retry_count = maxAttempts

\* C6 (amended): a failed record has retry_count = maxAttempts when its upload
\* was attempted, i.e. it failed by exhausting its retries; a record rejected
\* at validation was never attempted and is failed with retry_count 0 and
\* its validation message.
C6_FailedRetryCountByPath ==
  \A k \in 1..Len(uploads) :
    LET r == uploads[k] IN
    r.status = "failed" =>
      IF attemptsMade[r.slack_file_id] > 0
      THEN r.retry_count = maxAttempts /\ attemptsMade[r.slack_file_id] = maxAttempts
      ELSE /\ r.retry_count = 0
           /\ ~validateFileUpload(slackFiles[r.slack_file_id])
           /\ r.error_message = ValidationError(slackFiles[r.slack_file_id])

\* one record failed after its retries and another was rejected at validation
C6_Witness ==
  \E k, l \in 1..Len(uploads) :
    /\ uploads[k].status = "failed" /\ uploads[k].retry_count = maxAttempts
    /\ attemptsMade[uploads[k].slack_file_id] = maxAttempts
    /\ uploads[l].status = "failed" /\ uploads[l].retry_count = 0

C7_Step ==
  \A k \in 1..Len(uploads) :
    LET old == uploads[k]
        new == uploads'[k]
    IN /\ old.status # new.status =>
            <<old.status, new.status>> \in
               {<<"pending", "processing">>, <<"processing", "completed">>,
                <<"processing", "failed">>}
       /\ (old.status = "processing" /\ new.status = "processing" /\ new # old) =>
            /\ new.retry_count = old.retry_count + 1
            /\ \E i \in Invocations :
                 /\ fileOf[i] = old.slack_file_id
                 /\ pc[i] = "sleep" /\ pc'[i] = "download"

\* C7: in every step, a record's status either stays or moves along
\* pending -> processing, processing -> completed, processing -> failed; a
\* write that leaves the status processing is the entry of a retry (the
\* back-off of that file's job ends) and raises retry_count by exactly one.
C7_StatusTransitions == [][C7_Step]_vars

\* a record is processing again after a retry re-entry
C7_Witness ==
  \E k \in 1..Len(uploads) :
    /\ uploads[k].status = "processing" /\ uploads[k].retry_count = 2
    /\ \E l \in 1..Len(uploads) : uploads[l].status = "completed"

C8_Step ==
  \A i \in Invocations :
    /\ pc[i] = "sleep" =>
         /\ attempt[i] >= 1 /\ attempt[i] < maxAttempts
         /\ requestedDelay[i] = (2 ^ attempt[i]) * delayMs
         /\ waited[i] <= requestedDelay[i]
    /\ (pc[i] = "sleep" /\ pc'[i] # "sleep") =>
         /\ attempt'[i] = attempt[i] + 1
         /\ waited[i] = (2 ^ attempt[i]) * delayMs

\* C8: after attempt n < maxAttempts fails, the back-off timer is set to
\* 2^n * delayMs, and attempt n+1 starts when exactly that time has passed,
\* never earlier.
C8_RetryDelayLaw == [][C8_Step]_vars

\* the job waits in the back-off of its second attempt, 8000 ms elapsed
C8_Witness ==
  \E i \in Invocations :
    pc[i] = "sleep" /\ attempt[i] = 2 /\ waited[i] = 4 * delayMs /\ timer[i] = 0

GaveUp == {"notifyErr", "caught"}

C9_Step ==
  \A i \in Invocations :
    LET f == fileOf[i] IN
    /\ f \in Files => attemptsMade'[f] <= maxAttempts
    /\ (pc[i] \in {"download", "upload"} /\ pc'[i] \in GaveUp) =>
         /\ attemptsMade[f] = maxAttempts
         /\ RowIn(uploads', f).status = "failed"
         /\ RowIn(uploads', f).retry_count = maxAttempts
         /\ RowIn(uploads', f).error_message =
              (IF pc[i] = "download" THEN "download failed" ELSE "upload failed")
    /\ (pc[i] \in {"download", "upload"} /\ pc'[i] = "sleep") =>
         attemptsMade[f] < maxAttempts
    /\ pc[i] \in GaveUp =>
         /\ pc'[i] \in GaveUp
         /\ attemptsMade'[f] = attemptsMade[f]
         /\ RowIn(uploads', f) = RowIn(uploads, f)

\* C9: a job gives up only in the failure of its attempt number maxAttempts,
\* and then the record is failed with that attempt's error message and
\* retry_count = maxAttempts; a failure of an earlier attempt leads to the
\* back-off; no file is attempted more than maxAttempts times, and after the
\* job gave up the file is not attempted and its record not written again.
C9_ExactlyMaxAttempts == [][C9_Step]_vars

\* a job gave up after maxAttempts attempts
C9_Witness ==
  \E i \in Invocations :
    /\ pc[i] \in GaveUp
    /\ attemptsMade[fileOf[i]] = maxAttempts
    /\ RowIn(uploads, fileOf[i]).status = "failed"

\* C10: sendErrorMessage has been issued exactly once for a file whose job
\* gave up after its retries, and not at all for any other file.
C10_FailureNotifiedOnce ==
  \A f \in Files :
    sentErrors[f] =
      IF \E i \in Invocations : fileOf[i] = f /\ pc[i] \in GaveUp THEN 1 ELSE 0

\* C11: when handleFileSharedEvent has returned from its validation branch,
\* the file has a record with status failed whose error_message is the
\* validation errors joined by "; " (never empty), and every invocation that
\* got past validation handles a file that passes every check.
C11_RejectionRecorded ==
  \A i \in Invocations :
    LET f == fileOf[i] IN
    /\ pc[i] = "rejected" =>
         /\ Len(ValidationErrors(slackFiles[f])) >= 1
         /\ fileExists(uploads, f)
         /\ RowIn(uploads, f).status = "failed"
         /\ RowIn(uploads, f).error_message = Join(ValidationErrors(slackFiles[f]))
         /\ RowIn(uploads, f).error_message # NULL
    /\ pc[i] \in {"getUserInfo", "duplicate"} \cup EnqueuedPhases =>
         Len(ValidationErrors(slackFiles[f])) = 0

\* two notifications of one file that fails two checks were both rejected,
\* and the record carries both messages
C11_Witness ==
  \E i, j \in Invocations :
    /\ i # j /\ fileOf[i] = fileOf[j]
    /\ pc[i] = "rejected" /\ pc[j] = "rejected"
    /\ Len(ValidationErrors(slackFiles[fileOf[i]])) = 2
    /\ RowIn(uploads, fileOf[i]).error_message =
         "Invalid Slack file ID format; Invalid file size"

\* a file id and a file: the checks the file fails, read off its attributes
FailsSomeCheck(info) ==
  \/ ~MatchesSlackId(info.id, {"F"})
  \/ ~MatchesSlackId(info.user, {"U", "W"}) \/ info.user # targetUserId
  \/ info.name = <<>> \/ Len(info.name) > 255
  \/ \E k \in 1..Len(info.name) : info.name[k] \in dangerousChars
  \/ info.mimetype \notin allowedImageTypes
  \/ info.size <= 0 \/ info.size > maxFileSizeBytes

\* C12: a file that fails a check of validation, a malformed file id in
\* particular, is never the file of a pushed task (waiting, running or ended)
\* and processUploadWithRetry is never entered for it.
C12_InvalidNeverQueued ==
  \A f \in Files :
    FailsSomeCheck(slackFiles[f]) =>
      /\ attemptsMade[f] = 0
      /\ \A i \in Invocations : fileOf[i] = f => pc[i] \notin EnqueuedPhases
      /\ \A k \in 1..Len(tasks) : fileOf[tasks[k]] # f

\* a notification with a malformed file id was rejected while the job of a
\* valid file has been started by the queue
C12_Witness ==
  \E i, j \in Invocations :
    /\ pc[i] = "rejected"
    /\ ~MatchesSlackId(slackFiles[fileOf[i]].id, {"F"})
    /\ pc[j] = "download" /\ attemptsMade[fileOf[j]] = 1

\* C13: every task pushed by addUploadTask is eventually started by the
\* queue or its promise is settled: no invocation stays forever at its
\* `await addUploadTask(...)` with its task never run.
C13_EnqueueNeverDrops ==
  \A i \in Invocations : (pc[i] = "queued") ~> (pc[i] # "queued")

\* C14: when the timeout of gracefulShutdown is long enough for all the work
\* present at its call, every job that was running or waiting then has run
\* to completion when the shutdown returns: none is left waiting or in flight.
C14_DrainCompletesQueued ==
  shutdown = "exited" =>
    \A i \in Invocations : pc[i] \notin ({"queued"} \cup RunningPhases)

\* the drain timeout elapses: the shutdown ends in a step that finishes no job
TimeoutElapses == shutdown = "draining" /\ shutdown' = "exited" /\ pc' = pc

C15_Step ==
  /\ TimeoutElapses =>
       /\ tasks' = <<>>
       /\ numRunning' = numRunning
       /\ attempt' = attempt /\ timer' = timer
       /\ uploads' = uploads /\ attemptsMade' = attemptsMade
  /\ shutdown = "exited" =>
       /\ shutdown' = "exited"
       /\ tasks' = <<>>
       /\ pc' = pc /\ attemptsMade' = attemptsMade /\ uploads' = uploads

\* C15: when the drain timeout elapses, gracefulShutdown ends (the rejection
\* of waitForDrain is caught, the shutdown completes), the waiting tasks are
\* dropped so that none of them is started afterwards, and the jobs in
\* flight are left as they are: the queue does not touch them.
C15_DrainTimeout == [][C15_Step]_vars

\* the timeout elapsed with one job in flight and another not yet started
C15_Witness ==
  /\ shutdown = "exited"
  /\ \E i, j \in Invocations : pc[i] = "queued" /\ pc[j] \in RunningPhases
  /\ numRunning = 1 /\ tasks = <<>>

InTasks(ts) == {ts[k] : k \in 1..Len(ts)}

C16_Step ==
  /\ (paused /\ paused') =>
       /\ \A i \in Invocations : pc[i] = "queued" => pc'[i] = "queued"
       /\ numRunning' <= numRunning
       /\ Len(tasks') >= Len(tasks)
  /\ \A i \in Invocations :
       /\ (pc[i] = "getUserInfo" /\ pc'[i] = "queued") => tasks' = Append(tasks, i)
       /\ (i \in InTasks(tasks) /\ i \notin InTasks(tasks')) =>
            (pc'[i] = "download" /\ numRunning' <= concurrency)

\* C16: as long as the queue stays paused no waiting task is started, the
\* running count only falls (jobs in flight end) and pushed tasks are
\* appended to the waiting ones; a task pushed is appended whether the queue
\* is paused or not; a task leaves the waiting ones only by being started,
\* within the concurrency limit; and when tasks wait while the queue is not
\* paused, eventually all of them have been started, unless the queue is
\* paused again first.
C16_PauseResume ==
  /\ [][C16_Step]_vars
  /\ (Len(tasks) > 0 /\ ~paused) ~> (Len(tasks) = 0 \/ paused)

\* a job has ended and a task pushed waits while the queue is paused and no
\* job is in flight
C16_Witness ==
  /\ paused
  /\ Len(tasks) >= 1
  /\ \E i, j \in Invocations :
       /\ pc[i] \in {"resolved", "caught"}
       /\ pc[j] = "queued"
       /\ numRunning = 0

\* C17: the waiting tasks stand in the order of their addUploadTask calls
\* (the order of their records' ids), and every task already started was
\* added before every task that still waits: a task never starts while one
\* added earlier is waiting.
C17_FifoStart ==
  /\ \A j, k \in 1..Len(tasks) :
       j < k => recordId[tasks[j]] < recordId[tasks[k]]
  /\ \A a, b \in Invocations :
       (pc[a] \in EnqueuedPhases \ {"queued"} /\ b \in InTasks(tasks)) =>
          recordId[a] < recordId[b]

\* the task added first runs, the one added after it still waits for the slot
C17_Witness ==
  \E a, b \in Invocations :
    /\ recordId[a] >= 1 /\ recordId[a] < recordId[b]
    /\ pc[a] \in RunningPhases
    /\ tasks = <<b>>
    /\ ~paused /\ numRunning = concurrency

\* the tasks the queue starts in the step
StartedInStep == {j \in Invocations : pc[j] = "queued" /\ pc'[j] = "download"}

C18_Step ==
  \A i \in Invocations :
    (pc[i] \in RunningPhases /\ pc'[i] = "caught") =>
       /\ RowIn(uploads', fileOf[i]).status = "failed"
       /\ numRunning' = numRunning - 1 + Cardinality(StartedInStep)
       /\ numRunning' <= concurrency
       /\ (Len(tasks) > 0 /\ ~paused) => Head(tasks) \in StartedInStep
       /\ paused => StartedInStep = {}
       /\ \A j \in Invocations \ ({i} \cup StartedInStep) : pc'[j] = pc[j]
       /\ \/ shutdown' = shutdown
          \/ shutdown = "draining" /\ idle(tasks', numRunning')

\* C18: when the job of a file ends in its terminal failure, the rejection
\* arrives in the catch block of the handler that awaits addUploadTask; in
\* that step the record is failed, the job's slot is released and, unless
\* the queue is paused, the first waiting task is started in its place; no
\* other job is disturbed, and the server goes on unless this was the last
\* job a shutdown was waiting for.
C18_JobFailureAbsorbed == [][C18_Step]_vars

\* a job failed for good, and a job pushed after it was run to success
C18_Witness ==
  \E i, j \in Invocations :
    /\ pc[i] = "caught" /\ RowIn(uploads, fileOf[i]).status = "failed"
    /\ pc[j] = "resolved" /\ recordId[j] > recordId[i]
    /\ RowIn(uploads, fileOf[j]).status = "completed"
    /\ shutdown = "none"

C19_Step ==
  (recordId' # recordId \/ fileOf' # fileOf) =>
     IF fileExists(uploads, fileOf'[1])
     THEN recordId'[1] = 0 /\ uploads' = uploads
     ELSE /\ recordId'[1] = Len(uploads) + 1
          /\ InsertsRowFor(fileOf'[1])

\* C19: insertUpload for a file id that has a record answers null (0) and
\* leaves the table as it is, for every status asked for and every state of
\* the existing record; for a file id without a record it appends the row
\* and answers its id.
C19_DuplicateInsert ==
  /\ [][C19_Step]_vars
  /\ [](\A f \in Files, status \in Statuses :
          fileExists(uploads, f) =>
             /\ insertUploadResult(uploads, f, status) = 0
             /\ insertUploadRows(uploads, f, status) = uploads)

\* insertUpload answered the duplicate signal for a file whose record is
\* completed, next to a record that is processing
C19_Witness ==
  /\ recordId[1] = 0
  /\ fileExists(uploads, fileOf[1])
  /\ RowIn(uploads, fileOf[1]).status = "completed"
  /\ \E k \in 1..Len(uploads) : uploads[k].status = "processing"

\* row k of the table after updateUpload(f, updates) on rows
UpdatedAsAllowed(rows, f, updates, k) ==
  LET new == updateUpload(rows, f, updates)[k] IN
  /\ DOMAIN new = DOMAIN rows[k]
  /\ \A c \in DOMAIN rows[k] :
       new[c] = IF rows[k].slack_file_id = f /\ c \in DOMAIN updates
                   /\ c \in {"status", "drive_file_id", "error_message",
                              "retry_count", "uploaded_at"}
                THEN updates[c] ELSE rows[k][c]

\* C20: for every file id and update, updateUpload writes on the rows of
\* that file id exactly the allow-listed fields the update names, leaves
\* their other fields (id and slack_file_id among them) and all other rows
\* as they are, and answers false with the table unchanged when the file id
\* has no row.
C20_UpdateAllowList ==
  \A f \in Files, updates \in UpdateSamples :
    /\ Len(updateUpload(uploads, f, updates)) = Len(uploads)
    /\ \A k \in 1..Len(uploads) : UpdatedAsAllowed(uploads, f, updates, k)
    /\ ~fileExists(uploads, f) =>
         /\ ~updateUploadResult(uploads, f, updates)
         /\ updateUpload(uploads, f, updates) = uploads

\* an update naming id and retry_count was applied to a pending record: the
\* retry_count is written, the id is not, and the other record is untouched
C20_Witness ==
  \E k, l \in 1..Len(uploads) :
    /\ uploads[k].status = "pending" /\ uploads[k].retry_count = 1
    /\ uploads[k].id = k
    /\ uploads[l].status = "failed" /\ uploads[l].retry_count = 3

C21_Step ==
  \A i \in Invocations :
    LET f == fileOf[i] IN
    /\ pc[i] \in {"notifyOk", "resolved"} =>
         /\ RowIn(uploads, f).status = "completed"
         /\ RowIn(uploads', f) = RowIn(uploads, f)
         /\ attemptsMade'[f] = attemptsMade[f]
         /\ pc'[i] \in {pc[i], "resolved"}
    /\ pc[i] \in {"notifyErr", "caught"} =>
         /\ RowIn(uploads, f).status = "failed"
         /\ RowIn(uploads, f).error_message \in {"download failed", "upload failed"}
         /\ RowIn(uploads', f) = RowIn(uploads, f)
         /\ attemptsMade'[f] = attemptsMade[f]
         /\ pc'[i] \in {pc[i], "caught"}

\* C21: from the moment the completion message is being sent, whether it is
\* posted or chat.postMessage fails, the record stays completed as written,
\* no further attempt is made and the job ends resolved; from the moment
\* the error message is being sent, whatever its fate, the record stays
\* failed with the upload's error message and the job ends with that error.
C21_NotificationFailureHarmless == [][C21_Step]_vars

\* in channels that reject the bot's messages, one upload ended completed
\* after a single attempt and another ended failed after its retries
C21_Witness ==
  \E i, j \in Invocations :
    /\ pc[i] = "resolved" /\ pc[j] = "caught"
    /\ PostMessageFails(slackFiles[fileOf[i]]) /\ PostMessageFails(slackFiles[fileOf[j]])
    /\ attemptsMade[fileOf[i]] = 1
    /\ RowIn(uploads, fileOf[i]).status = "completed"
    /\ sentCompletions[fileOf[i]] = 1
    /\ sentErrors[fileOf[j]] = 1
    /\ RowIn(uploads, fileOf[j]).status = "failed"

C23_TopAndAlternatives ==
  \A k \in 1..Len(classifications) :
    LET c == classifications[k] IN
    "category" \in DOMAIN c =>
      /\ \A d \in Categories : c.scores[d] <= c.scores[c.category]
      /\ c.confidence = Min(c.scores[c.category], One)
      /\ c.confidence >= 0 /\ c.confidence <= One
      /\ Len(c.alternatives) = 2
      /\ Cardinality({c.category, c.alternatives[1].name, c.alternatives[2].name}) = 3
      /\ \A j \in 1..2 :
           /\ c.alternatives[j].name \in Categories
           /\ c.alternatives[j].score = c.scores[c.alternatives[j].name]
      /\ c.scores[c.category] >= c.alternatives[1].score
      /\ c.alternatives[1].score >= c.alternatives[2].score
      /\ \A d \in Categories \ {c.category, c.alternatives[1].name, c.alternatives[2].name} :
           c.scores[d] <= c.alternatives[2].score

\* a classification whose best score exceeds 1.0 and is cut, with two
\* alternatives of different scores below it
C23_Witness ==
  /\ Len(classifications) > 0
  /\ "category" \in DOMAIN classifications[1]
  /\ classifications[1].scores[classifications[1].category] > One
  /\ classifications[1].confidence = One
  /\ classifications[1].alternatives[1].score > classifications[1].alternatives[2].score
  /\ classifications[1].alternatives[2].score > 0

\* the overlay `learned` without its entry for `category`
WithoutEntry(learned, category) ==
  [d \in DOMAIN learned \ {category} |-> learned[d]]

\* C24: for every category, an overlay entry with noChanges set yields the
\* same merged rules as an overlay without an entry for that category, and
\* so every classifyImage call ends as it would under the rules merged
\* without that entry.
C24_NoChangesIsNoEntry ==
  \A category \in DOMAIN learnedRules :
    learnedRules[category].noChanges =>
      LET without == mergeRules(BASE_RULES, WithoutEntry(learnedRules, category)) IN
      /\ CATEGORY_RULES = without
      /\ CATEGORY_RULES[category] = BASE_RULES[category]
      /\ \A k \in 1..Len(classifications) :
           classifications[k] = classifyImageWith(without, visionAnalysis, slackContext)

\* an image was classified under an overlay whose entry for the solo
\* category has noChanges set next to a priority, a text expectation and
\* labels that differ from the static rule
C24_Witness ==
  /\ SOLO \in DOMAIN learnedRules
  /\ learnedRules[SOLO].noChanges
  /\ learnedRules[SOLO].recommendedPriority # BASE_RULES[SOLO].priority
  /\ learnedRules[SOLO].recommendedPriority # 0
  /\ Len(classifications) > 0
  /\ "category" \in DOMAIN classifications[1]
  /\ classifications[1].category = SOLO

\* the image carries no signal: no label, no text, no face count, no colour,
\* and no message accompanies it
EmptySignals ==
  /\ Len(visionAnalysis.labels) = 0
  /\ "text" \in DOMAIN visionAnalysis
  /\ ~visionAnalysis.text.hasText /\ visionAnalysis.text.full = ""
  /\ "faces" \notin DOMAIN visionAnalysis
  /\ Len(visionAnalysis.colors) = 0
  /\ extractContextText(slackContext) = ""

\* C25: classification never aborts: AnalysisAgent.analyze never ends with a
\* thrown error, and when the scorer raised an error or the image carries no
\* signal the category is the fallback category of lowest priority.
C25_FallbackOnErrorOrEmpty ==
  \A k \in 1..Len(classifications) :
    LET outcome == analyze(classifications[k]) IN
    /\ "thrown" \notin DOMAIN outcome
    /\ ("error" \in DOMAIN classifications[k] \/ EmptySignals) => outcome.category = MISC

\* the image of the scenario: the one label "character" of confidence 0.9,
\* two faces, a detected text of more than 180 characters, no message, and
\* the static rules
TwoFacesLongText ==
  /\ learnedRules = NoLearnedRules
  /\ visionAnalysis.labels = <<Label("character", 90)>>
  /\ "faces" \in DOMAIN visionAnalysis
  /\ visionAnalysis.faces.count = 2
  /\ "text" \in DOMAIN visionAnalysis
  /\ visionAnalysis.text.hasText /\ Len(visionAnalysis.text.full) > 180
  /\ extractContextText(slackContext) = ""

\* C26: for the image with the label "character" (0.9), two faces and a text
\* of more than 180 characters, without context and under the static rules,
\* the group category is scored above the solo category, and the solo score
\* is strictly below the solo score of the same image with no face.
C26_TwoFacesLongText ==
  TwoFacesLongText =>
    \A k \in 1..Len(classifications) :
      LET c == classifications[k]
          noFace == classifyImage([visionAnalysis EXCEPT !.faces.count = 0], slackContext)
      IN /\ c.scores[GROUP] > c.scores[SOLO]
         /\ c.scores[SOLO] < noFace.scores[SOLO]

\* the image of the scenario has been classified, as a group illustration
C26_Witness ==
  /\ TwoFacesLongText
  /\ Len(classifications) > 0
  /\ classifications[1].category = GROUP
  /\ classifications[1].scores[SOLO] > 0

C27_Step ==
  \A i \in Invocations :
    LET f == fileOf'[i] IN
    \* attempt n begins: its download call is issued in this step
    /\ (pc[i] # "download" /\ pc'[i] = "download") =>
         /\ attemptsMade'[f] = attemptsMade[f] + 1
         /\ attempt'[i] = attemptsMade'[f]
    \* whenever a download or upload call of attempt n is outstanding
    /\ pc'[i] \in {"download", "upload"} =>
         /\ fileExists(uploads', f)
         /\ RowIn(uploads', f).status = "processing"
         /\ RowIn(uploads', f).retry_count = attemptsMade'[f] - 1

\* C27: when attempt n (counted from 1) of an upload begins, the record is
\* processing with retry_count = n - 1 by the time the attempt's download
\* call is issued, and it stays so while the download or the upload call of
\* that attempt is outstanding.
C27_AttemptStartRecorded == [][C27_Step]_vars

\* the upload call of a third attempt is outstanding
C27_Witness ==
  \E i \in Invocations :
    /\ pc[i] = "upload"
    /\ attempt[i] = 3
    /\ RowIn(uploads, fileOf[i]).retry_count = 2

\* the record of file f carries the Drive file's id, name, url and folder
\* and a completion timestamp
DestinationPopulated(rows, f) ==
  /\ RowIn(rows, f).drive_file_id = driveFile(f).id
  /\ RowIn(rows, f).drive_file_name = driveFile(f).name
  /\ RowIn(rows, f).drive_file_url = driveFile(f).url
  /\ RowIn(rows, f).drive_folder_path = driveFile(f).folderId
  /\ RowIn(rows, f).uploaded_at

C28_Step ==
  /\ \A i \in Invocations :
       \* the upload call of an attempt returns successfully
       (pc[i] = "upload" /\ pc'[i] \in {"notifyOk", "resolved"}) =>
          /\ RowIn(uploads, fileOf[i]).status = "processing"
          /\ ~RowIn(uploads, fileOf[i]).uploaded_at
          /\ RowIn(uploads', fileOf[i]).status = "completed"
          /\ DestinationPopulated(uploads', fileOf[i])
  /\ \A f \in Files :
       /\ (fileExists(uploads', f) /\ RowIn(uploads', f).status = "completed") =>
            DestinationPopulated(uploads', f)
       /\ sentCompletions'[f] > sentCompletions[f] =>
            /\ fileExists(uploads', f)
            /\ RowIn(uploads', f).status = "completed"
            /\ DestinationPopulated(uploads', f)

\* C28: when the download and the upload of an attempt have succeeded, one
\* update turns the processing record into a completed one with the Drive
\* file's id, name, url and folder and a completion timestamp; a completed
\* record always carries these; and the completion message is sent only
\* once the record is completed.
C28_CompletedWithDestination == [][C28_Step]_vars

\* a job has ended after its completion message, the record completed
C28_Witness ==
  \E i \in Invocations :
    /\ pc[i] = "resolved"
    /\ sentCompletions[fileOf[i]] = 1
    /\ RowIn(uploads, fileOf[i]).status = "completed"
    /\ RowIn(uploads, fileOf[i]).drive_file_url = driveFile(fileOf[i]).url

\* C29: a suspended job does not stop the other workers.  While a job sleeps
\* in its back-off (or waits for its download or upload) and the process
\* runs, every other job's pending download or upload can return, with
\* success or failure, and its pending notification can return; and when a
\* task waits while fewer than `concurrency` jobs run and the queue is not
\* paused, the start of that task is scheduled and can take place.
C29_SuspensionDoesNotBlock ==
  \A i \in Invocations :
    (pc[i] \in {"sleep", "download", "upload"} /\ shutdown # "exited") =>
      /\ \A j \in Invocations \ {i} :
           /\ pc[j] = "download" => ENABLED DownloadOk(j) /\ ENABLED DownloadFails(j)
           /\ pc[j] = "upload" => ENABLED UploadOk(j) /\ ENABLED UploadFails(j)
           /\ pc[j] = "notifyOk" => ENABLED CompletionMessageDone(j)
           /\ pc[j] = "notifyErr" => ENABLED ErrorMessageDone(j)
      /\ (Len(tasks) > 0 /\ numRunning < concurrency /\ ~paused) =>
           /\ processingScheduled
           /\ ENABLED Process
           /\ pc[Head(tasks)] = "queued"

\* a job is in its back-off, holding one of two slots, while another job's
\* task waits for its start
C29_Witness ==
  \E i \in Invocations :
    /\ pc[i] = "sleep"
    /\ timer[i] > 0
    /\ Len(tasks) > 0
    /\ numRunning < concurrency
    /\ ~paused
    /\ shutdown = "none"

\* C30: the promise of addUploadTask is resolved once the task is queued:
\* no handler is still waiting for it while its task is being processed,
\* and no handler ever sees it rejected by the failure of its job.
C30_ResolvedWhenQueued ==
  \A i \in Invocations :
    /\ pc[i] \notin RunningPhases
    /\ pc[i] # "caught"

\* the elements of s in order, each kept at its first occurrence only
FirstOccurrences(s) ==
  LET kept == {k \in 1..Len(s) : \A h \in 1..(k - 1) : s[h] # s[k]}
  IN [j \in 1..Cardinality(kept) |->
        s[CHOOSE k \in kept : Cardinality({h \in kept : h <= k}) = j]]

\* the overlay entries that are applied
AppliedEntries == {c \in DOMAIN learnedRules : ~learnedRules[c].noChanges}

\* what the merge does with labels and keywords, and with the categories the
\* overlay does not change
MergedLists ==
  /\ DOMAIN CATEGORY_RULES = DOMAIN BASE_RULES
  /\ \A c \in Categories \ AppliedEntries : CATEGORY_RULES[c] = BASE_RULES[c]
  /\ \A c \in AppliedEntries :
       LET l == learnedRules[c]
           base == BASE_RULES[c]
           merged == CATEGORY_RULES[c]
       IN /\ merged.keywords = base.keywords
          /\ merged.visionLabels =
               FirstOccurrences(l.requiredLabels \o l.recommendedLabels \o base.visionLabels)
          /\ merged.antiLabels = FirstOccurrences(l.antiLabels \o base.antiLabels)

ScoreGrid == {(k * Unit) \div 10 : k \in 0..11}

\* the categories whose score the step changed lie within [0, 1] afterwards
StepKeepsRange(before, after) ==
  \A category \in Categories :
     after[category] # before[category] => after[category] \in 0..Unit

\* the four overrides applied one after the other to `weighted`
OverridesKeepRange(weighted, analysis) ==
  LET afterFaces == ApplyFaceCount(weighted, analysis)
      afterLength == ApplyTextLength(afterFaces, analysis)
      afterLogo == ApplyLogo(afterLength, analysis)
      afterColors == ApplyColors(afterLogo, analysis)
  IN /\ StepKeepsRange(weighted, afterFaces)
     /\ StepKeepsRange(afterFaces, afterLength)
     /\ StepKeepsRange(afterLength, afterLogo)
     /\ StepKeepsRange(afterLogo, afterColors)

\* C32 as stated: after the overrides of a classification every category's
\* score lies within [0, 1] before it is scaled by the priority.
C32_EveryScoreWithinUnit ==
  (Len(classifications) > 0 /\ "text" \in DOMAIN visionAnalysis) =>
     LET adjusted == AdjustedScores(
                        WeightedScores(SubScores(CATEGORY_RULES, visionAnalysis, slackContext)),
                        visionAnalysis)
     IN \A category \in Categories : adjusted[category] \in 0..Unit

\* C32, amended: when an image has been classified, every override (face
\* count, text length, brand name, colours) leaves the score of each
\* category it changes within [0, 1], from the weighted sum of the image and
\* from every pre-adjustment score
\* between 0 and 1.1; the weighted sum itself lies within [0, 1.1], and a
\* category that no override changes keeps it.
C32_OverrideKeepsAdjustedInRange ==
  (Len(classifications) = 1 /\ "text" \in DOMAIN visionAnalysis) =>
     LET weighted == WeightedScores(SubScores(CATEGORY_RULES, visionAnalysis, slackContext))
         adjusted == AdjustedScores(weighted, visionAnalysis)
     IN /\ \A category \in Categories : weighted[category] \in 0..((11 * Unit) \div 10)
        /\ OverridesKeepRange(weighted, visionAnalysis)
        /\ \A x \in ScoreGrid :
              OverridesKeepRange([category \in Categories |-> x], visionAnalysis)
        /\ \A category \in Categories :
              adjusted[category] > Unit => adjusted[category] = weighted[category]

\* an image was classified whose weighted sum for a category exceeded 1 and
\* an override brought that category's score to at most 1
C32_Witness ==
  /\ Len(classifications) > 0
  /\ "text" \in DOMAIN visionAnalysis
  /\ LET weighted == WeightedScores(SubScores(CATEGORY_RULES, visionAnalysis, slackContext))
         adjusted == AdjustedScores(weighted, visionAnalysis)
     IN \E category \in Categories :
           /\ weighted[category] > Unit
           /\ adjusted[category] # weighted[category]
           /\ adjusted[category] \in 0..Unit

\* ---------------------------------------------------------------------------
\* C33
\* ---------------------------------------------------------------------------

\* the texts of `list`, lower-cased
LowerCased(list) == Listed([k \in 1..Len(list) |-> toLowerCase(list[k])])

\* a detected label and a rule label match: one lower-cased text contains the other
LabelsMatch(d, r) == includes(d, r) \/ includes(r, d)

\* the highest confidence, in hundredths, among the detected labels whose
\* lower-cased text matches one of the lower-cased `ruleLabels`; 0 if none does
HighestMatch(labels, labelTexts, ruleLabels) ==
  LET matched == {labels[k].score : k \in {h \in 1..Len(labels) :
                     \E j \in 1..Len(ruleLabels) :
                        LabelsMatch(labelTexts[h], ruleLabels[j])}}
  IN IF matched = {} THEN 0 ELSE CHOOSE m \in matched : \A n \in matched : n <= m

\* max(0, c - 0.15 * a) in units, c and a in hundredths
ExpectedLabelScore(labels, rule) ==
  LET labelTexts == LowerCased([k \in 1..Len(labels) |-> labels[k].description])
      positive == LowerCased(rule.visionLabels)
      negative == LowerCased(rule.antiLabels)
      c == HighestMatch(labels, labelTexts, positive)
      a == SumSeq(Listed([j \in 1..Len(negative) |->
                            HighestMatch(labels, labelTexts, <<negative[j]>>)]))
  IN Max(0, c * (Unit \div 100) - (15 * a * (Unit \div 100)) \div 100)

\* C33: for the labels of an image that has been classified, every
\* category's label score
\* is max(0, c - 0.15 * a), c the highest confidence among the detected labels
\* matching a positive label of the category (0 if none), a the summed
\* confidence of the category's matched anti-labels.
C33_LabelScoreFormula ==
  Len(classifications) = 1 =>
     LET rules == CATEGORY_RULES
         labelScores == analyzeVisionLabels(rules, visionAnalysis.labels)
     IN \A category \in Categories :
           labelScores[category] = ExpectedLabelScore(visionAnalysis.labels, rules[category])

\* an image was classified for which a category matched two detected labels
\* of different confidence and two anti-labels, with a label score above 0
C33_Witness ==
  /\ Len(classifications) > 0
  /\ \E category \in Categories :
        LET rule == CATEGORY_RULES[category]
            labels == visionAnalysis.labels
            labelTexts == LowerCased([k \in 1..Len(labels) |-> labels[k].description])
            positive == LowerCased(rule.visionLabels)
            negative == LowerCased(rule.antiLabels)
        IN /\ Cardinality({labels[k].score : k \in {h \in 1..Len(labels) :
                   \E j \in 1..Len(positive) :
                      LabelsMatch(labelTexts[h], positive[j])}}) >= 2
           /\ Cardinality({j \in 1..Len(negative) :
                   HighestMatch(labels, labelTexts, <<negative[j]>>) > 0}) >= 2
           /\ analyzeVisionLabels(CATEGORY_RULES, labels)[category] > 0
           /\ analyzeVisionLabels(CATEGORY_RULES, labels)[category]
                < HighestMatch(labels, labelTexts, positive) * (Unit \div 100)

\* ---------------------------------------------------------------------------
\* C34
\* ---------------------------------------------------------------------------

\* the latest classification and the sub-scores of its inputs
LastClassification == classifications[Len(classifications)]

Classified == Len(classifications) > 0 /\ "category" \in DOMAIN LastClassification

\* C34: the method of a classification is hybrid exactly when the keyword
\* and the label sub-score of the returned winner both exceed 0.5,
\* keyword_match when only the keyword sub-score does, vision_api when only
\* the label sub-score does, and low_confidence otherwise.
C34_MethodFromWinnerSubScores ==
  Classified =>
     LET sub == SubScores(CATEGORY_RULES, visionAnalysis, slackContext)
         winner == LastClassification.category
         keywordHigh == 2 * sub.keywordScores[winner] > Unit
         labelHigh == 2 * sub.labelScores[winner] > Unit
         method == LastClassification.method
     IN /\ method = "hybrid" <=> (keywordHigh /\ labelHigh)
        /\ method = "keyword_match" <=> (keywordHigh /\ ~labelHigh)
        /\ method = "vision_api" <=> (~keywordHigh /\ labelHigh)
        /\ method = "low_confidence" <=> (~keywordHigh /\ ~labelHigh)

\* two classifications were made, the first of method vision_api for a winner
\* whose label sub-score alone exceeds 0.5 while another category's keyword
\* sub-score exceeds 0.5
C34_Witness ==
  /\ Len(classifications) = 2
  /\ Classified
  /\ LastClassification.method = "vision_api"
  /\ LET sub == SubScores(CATEGORY_RULES, visionAnalysis, slackContext)
     IN \E other \in Categories \ {LastClassification.category} :
           2 * sub.keywordScores[other] > Unit

\* ---------------------------------------------------------------------------
\* C35
\* ---------------------------------------------------------------------------

\* the record of file f is completed or failed
InTerminalState(rows, f) ==
  fileExists(rows, f) /\ RowIn(rows, f).status \in Terminal

C35_Step ==
  \A f \in Files :
     InTerminalState(uploads, f) =>
        /\ fileExists(uploads', f)
        /\ RowIn(uploads', f).status = RowIn(uploads, f).status
        /\ RowIn(uploads', f).retry_count = RowIn(uploads, f).retry_count
        /\ RowIn(uploads', f).drive_file_id = RowIn(uploads, f).drive_file_id
        /\ RowIn(uploads', f).drive_file_name = RowIn(uploads, f).drive_file_name
        /\ RowIn(uploads', f).drive_file_url = RowIn(uploads, f).drive_file_url
        /\ RowIn(uploads', f).drive_folder_path = RowIn(uploads, f).drive_folder_path
        /\ RowIn(uploads', f).uploaded_at = RowIn(uploads, f).uploaded_at

\* C35: terminal states are absorbing.  Once a record is completed or failed,
\* no step (retry, notification, a further notification for the same file,
\* queue operation) changes its status, its retry count or its destination
\* fields.
C35_TerminalAbsorbing == [][C35_Step]_vars

\* a job has ended with its record completed, and a later notification for
\* the same file was handled and stopped at the fileExists check
C35_Witness ==
  \E i, j \in Invocations :
     /\ i # j
     /\ pc[i] = "resolved"
     /\ RowIn(uploads, fileOf[i]).status = "completed"
     /\ fileOf[j] = fileOf[i]
     /\ pc[j] = "skipped"

\* ---------------------------------------------------------------------------
\* C36
\* ---------------------------------------------------------------------------

\* the columns of a classification outcome
OutcomeColumns ==
  {"ai_category", "ai_confidence", "classification_method", "user_category", "feedback_type"}

\* C36: after AnalysisAgent.analyze succeeded for a file, and after a skip
\* or organize step, the file's record holds the outcome columns the caller
\* wrote through updateUpload: ai_category, ai_confidence and
\* classification_method, or user_category and feedback_type.
C36_OutcomeStored ==
  \A f \in Files :
     (fileExists(uploads, f) /\ Len(written[f]) > 0) =>
        \A c \in OutcomeColumns \cap DOMAIN written[f][1] :
           /\ c \in DOMAIN RowIn(uploads, f)
           /\ RowIn(uploads, f)[c] = written[f][1][c]

\* ---------------------------------------------------------------------------
\* C37
\* ---------------------------------------------------------------------------

\* C37: concurrent getOrCreateCategoryFolder calls for one category create
\* at most one folder of that category, all return the same folder id, and
\* none fails because of another call's cache insert.
C37_OneFolderPerCategory ==
  /\ \A category \in DecidedCategories :
        Cardinality({k \in 1..Len(driveFolders) : driveFolders[k].name = category}) <= 1
  /\ \A c, d \in Callers :
        (/\ folderCalls[c].pc = "returned"
         /\ folderCalls[d].pc = "returned"
         /\ folderCalls[c].category = folderCalls[d].category) =>
           folderCalls[c].result = folderCalls[d].result
  /\ \A c \in Callers : folderCalls[c].pc # "failed"

\* ---------------------------------------------------------------------------
\* C38
\* ---------------------------------------------------------------------------

Overrides == {"faces", "length", "logo", "colors"}

\* the final scores of the image when the override `skipped` is left out
ScoresSkipping(rules, weighted, analysis, skipped) ==
  LET afterFaces == IF skipped = "faces" THEN weighted
                    ELSE ApplyFaceCount(weighted, analysis)
      afterLength == IF skipped = "length" THEN afterFaces
                     ELSE ApplyTextLength(afterFaces, analysis)
      afterLogo == IF skipped = "logo" THEN afterLength
                   ELSE ApplyLogo(afterLength, analysis)
      afterColors == IF skipped = "colors" THEN afterLogo
                     ELSE ApplyColors(afterLogo, analysis)
  IN ApplyPriority(rules, afterColors)

\* the categories the override lowers by design: the solo category under
\* several faces and under a long text
Penalised(analysis, override) ==
  IF \/ override = "faces" /\ "faces" \in DOMAIN analysis /\ analysis.faces.count >= 2
     \/ override = "length" /\ analysis.text.hasText /\ Len(analysis.text.full) > 180
  THEN {SOLO} ELSE {}

\* C38: an override that boosts never lowers a score.  For a classified
\* image, every category that an override does not penalise scores at least
\* as much with the override as without it: the solo category with one face
\* against no face information, and likewise for the short-text, brand-name,
\* colour and group boosts.
C38_BoostNeverLowers ==
  (Len(classifications) = 1 /\ "text" \in DOMAIN visionAnalysis) =>
     LET rules == CATEGORY_RULES
         weighted == WeightedScores(SubScores(rules, visionAnalysis, slackContext))
         scores == ScoresSkipping(rules, weighted, visionAnalysis, "none")
     IN /\ scores = LastClassification.scores
        /\ \A override \in Overrides :
              LET without == ScoresSkipping(rules, weighted, visionAnalysis, override)
              IN \A category \in Categories \ Penalised(visionAnalysis, override) :
                    scores[category] >= without[category]

====
